---- MODULE Spec2Model ----
(***************************************************************************)
(* A model of the ubiqx binary-tree family (ubi_BinTree, ubi_SplayTree)    *)
(* and of the cache built on the splay tree (ubi_Cache).                   *)
(*                                                                         *)
(* Nodes are intrusive: the caller owns the memory.  A node is a number in *)
(* 1..MaxNodes, NULL is 0.  A tree (the ubi_btRoot header together with    *)
(* the ubi_btNode fields of every node) is handled by the operators below  *)
(* as a record                                                             *)
(*    [Link, gender, balance, key, root, count, flags]                     *)
(* and every C function is an operator from such a record to the record    *)
(* after the call (and the values the call returns).                       *)
(***************************************************************************)
EXTENDS Integers, Sequences, FiniteSets, TLC

\* ------------------------------------------------------------------------
\* Bounds of the model.

MaxNodes == 3
MaxSize == 2
MaxLimit == 2
MaxTrys == 1
MaxLevels == 4

\* ------------------------------------------------------------------------
\* Constants of ubi_BinTree.h.

NULL == 0
ubi_trTRUE == 255
ubi_trFALSE == 0
ubi_trOVERWRITE == 1
ubi_trDUPKEY == 2
ubi_trLEFT == 0
ubi_trPARENT == 1
ubi_trRIGHT == 2
ubi_trEQUAL == ubi_trPARENT
ubi_trLT == 1
ubi_trLE == 2
ubi_trEQ == 3
ubi_trGE == 4
ubi_trGT == 5

Nodes == 1..MaxNodes
Keys == 1..MaxNodes
Ways == {ubi_trLEFT, ubi_trPARENT, ubi_trRIGHT}
\* The local "dummy" node of SwapNodes.
Dummy == MaxNodes + 1

NoLinks == [w \in Ways |-> NULL]

\* ------------------------------------------------------------------------
\* Macros of ubi_BinTree.h and the comparison function of the test programs.

ubi_btSgn(x) == IF x = 0 THEN 0 ELSE IF x > 0 THEN 1 ELSE -1

\* The macro with the sign taken the wrong way round.
ubi_trAbNormal_Flipped(W) == ubi_trEQUAL - ubi_btSgn(W)

ubi_trAbNormal(W) == ubi_btSgn(W) + ubi_trEQUAL

ubi_trRevWay(W) == ubi_trEQUAL - (W - ubi_trEQUAL)

\* The macro for a tree that takes every flags byte as ubi_trDUPKEY.
ubi_trDups_OK_Always(t) == t.flags \in 0..3

\* flags is one byte; only bits 0 and 1 are ever set.
ubi_trDups_OK(t) == (t.flags \div ubi_trDUPKEY) % 2 = 1

\* The macro without the test of the flag.
ubi_trOvwt_OK_Untested(t) == t.flags \in 0..3

ubi_trOvwt_OK(t) == (t.flags \div ubi_trOVERWRITE) % 2 = 1

\* strcmp-like: negative, zero or positive.
CompareFunc(t, ItemPtr, NodePtr) == ItemPtr - t.key[NodePtr]

\* ------------------------------------------------------------------------
\* ubi_BinTree.c, internal functions.

RECURSIVE qFind(_, _, _)
qFind(t, FindMe, p) ==
    IF p = NULL THEN NULL
    ELSE LET tmp == ubi_trAbNormal(CompareFunc(t, FindMe, p))
         IN  IF tmp = ubi_trEQUAL THEN p
             ELSE qFind(t, FindMe, t.Link[p][tmp])

RECURSIVE TreeFindLoop(_, _, _, _, _)
TreeFindLoop(t, findme, tmp_p, tmp_pp, tmp_gender) ==
    IF tmp_p = NULL
    THEN [p |-> NULL, parent |-> tmp_pp, gender |-> tmp_gender]
    ELSE LET tmp_cmp == ubi_trAbNormal(CompareFunc(t, findme, tmp_p))
         IN  IF tmp_cmp = ubi_trEQUAL
             THEN [p |-> tmp_p, parent |-> tmp_pp, gender |-> tmp_gender]
             ELSE TreeFindLoop(t, findme, t.Link[tmp_p][tmp_cmp], tmp_p, tmp_cmp)

\* Returns the node found (or NULL), *parentp and *gender.
TreeFind(t, findme, p) == TreeFindLoop(t, findme, p, NULL, ubi_trEQUAL)

\* A "ubi_btNodePtr *": <<NULL, w>> is &(RootPtr->root), <<n, w>> is
\* &(n->Link[w]).
RootSlot == <<NULL, ubi_trPARENT>>

SlotOf(t, n) ==
    IF t.Link[n][ubi_trPARENT] # NULL
    THEN <<t.Link[n][ubi_trPARENT], t.gender[n]>>
    ELSE RootSlot

WriteSlot(t, slot, v) ==
    IF slot[1] = NULL THEN [t EXCEPT !.root = v]
    ELSE [t EXCEPT !.Link[slot[1]][slot[2]] = v]

\* "*newnode = *oldnode".
CopyNode(t, oldnode, newnode) ==
    [t EXCEPT !.Link[newnode] = t.Link[oldnode],
              !.gender[newnode] = t.gender[oldnode],
              !.balance[newnode] = t.balance[oldnode]]

\* "if( oldnode->Link[w] ) (oldnode->Link[w])->Link[ubi_trPARENT] = newnode".
Reparent(t, oldnode, w, newnode) ==
    IF t.Link[oldnode][w] # NULL
    THEN [t EXCEPT !.Link[t.Link[oldnode][w]][ubi_trPARENT] = newnode]
    ELSE t

\* ReplaceNode without the step-parent told to the right child.
ReplaceNode_LeftOnly(t, parent, oldnode, newnode) ==
    Reparent(WriteSlot(CopyNode(t, oldnode, newnode), parent, newnode),
             oldnode, ubi_trLEFT, newnode)

ReplaceNode(t, parent, oldnode, newnode) ==
    Reparent(Reparent(WriteSlot(CopyNode(t, oldnode, newnode),
                                parent, newnode),
                      oldnode, ubi_trLEFT, newnode),
             oldnode, ubi_trRIGHT, newnode)

\* The tree with the storage of SwapNodes' local variable "dummy" added,
\* and with it gone again.
WithDummy(t) ==
    [t EXCEPT !.Link = [n \in Nodes \cup {Dummy} |->
                            IF n = Dummy THEN NoLinks ELSE t.Link[n]],
              !.gender = [n \in Nodes \cup {Dummy} |->
                            IF n = Dummy THEN ubi_trEQUAL ELSE t.gender[n]],
              !.balance = [n \in Nodes \cup {Dummy} |->
                            IF n = Dummy THEN ubi_trEQUAL ELSE t.balance[n]]]

WithoutDummy(t) ==
    [t EXCEPT !.Link = [n \in Nodes |-> t.Link[n]],
              !.gender = [n \in Nodes |-> t.gender[n]],
              !.balance = [n \in Nodes |-> t.balance[n]]]

\* One step of SwapNodes: Parent is set to the slot of oldnode, then
\* ReplaceNode( Parent, oldnode, newnode ).
SwapStep(t, oldnode, newnode) ==
    ReplaceNode(t, SlotOf(t, oldnode), oldnode, newnode)

SwapNodes(t, Node1, Node2) ==
    WithoutDummy(SwapStep(SwapStep(SwapStep(WithDummy(t), Node1, Dummy),
                                   Node2, Node1),
                          Dummy, Node2))

RECURSIVE SubSlide(_, _, _)
SubSlide(t, P, whichway) ==
    IF P = NULL THEN NULL
    ELSE IF t.Link[P][whichway] # NULL
         THEN SubSlide(t, t.Link[P][whichway], whichway)
         ELSE P

RECURSIVE NeighborUp(_, _, _)
NeighborUp(t, P, whichway) ==
    IF t.Link[P][ubi_trPARENT] = NULL THEN NULL
    ELSE IF whichway = t.gender[P]
         THEN NeighborUp(t, t.Link[P][ubi_trPARENT], whichway)
         ELSE t.Link[P][ubi_trPARENT]

Neighbor(t, P, whichway) ==
    IF P = NULL THEN NULL
    ELSE IF t.Link[P][whichway] # NULL
         THEN SubSlide(t, t.Link[P][whichway], ubi_trRevWay(whichway))
         ELSE NeighborUp(t, P, whichway)

ubi_btNext(t, P) == Neighbor(t, P, ubi_trRIGHT)

ubi_btPrev(t, P) == Neighbor(t, P, ubi_trLEFT)

ubi_btFirst(t, P) == SubSlide(t, P, ubi_trLEFT)

ubi_btLast(t, P) == SubSlide(t, P, ubi_trRIGHT)

\* ------------------------------------------------------------------------
\* ubi_BinTree.c, exported functions.

ubi_btInitNode(t, NodePtr) ==
    [t EXCEPT !.Link[NodePtr] = NoLinks,
              !.gender[NodePtr] = ubi_trEQUAL,
              !.balance[NodePtr] = ubi_trEQUAL]

ubi_btInitTree(t, Flags) ==
    [t EXCEPT !.root = NULL,
              !.count = 0,
              !.flags = IF (Flags \div ubi_trDUPKEY) % 2 = 1 THEN ubi_trDUPKEY
                        ELSE Flags % 2]

\* The descent that goes on to the left, not to the right, of a node with
\* an equal key.
RECURSIVE DupDescend_Left(_, _, _, _, _)
DupDescend_Left(t, ItemPtr, q, parent, tmp) ==
    IF q = NULL THEN [parent |-> parent, tmp |-> tmp]
    ELSE LET way == IF tmp = ubi_trEQUAL THEN ubi_trLEFT ELSE tmp
             nq  == t.Link[q][way]
         IN  DupDescend_Left(t, ItemPtr, nq, q,
                             IF nq # NULL
                             THEN ubi_trAbNormal(CompareFunc(t, ItemPtr, nq))
                             ELSE way)

\* The descent of the duplicate-key branch of ubi_btInsert: returns the
\* parent and the side on which the new node is hung.
RECURSIVE DupDescend(_, _, _, _, _)
DupDescend(t, ItemPtr, q, parent, tmp) ==
    IF q = NULL THEN [parent |-> parent, tmp |-> tmp]
    ELSE LET way == IF tmp = ubi_trEQUAL THEN ubi_trRIGHT ELSE tmp
             nq  == t.Link[q][way]
         IN  DupDescend(t, ItemPtr, nq, q,
                        IF nq # NULL
                        THEN ubi_trAbNormal(CompareFunc(t, ItemPtr, nq))
                        ELSE way)

\* The new node is hung on the side tmp of parent.
HangNode(t, parent, tmp, NewNode) ==
    [t EXCEPT !.Link[parent][tmp] = NewNode,
              !.Link[NewNode][ubi_trPARENT] = parent,
              !.gender[NewNode] = tmp,
              !.count = @ + 1]

HangDup(t, d, NewNode) == HangNode(t, d.parent, d.tmp, NewNode)

\* ubi_btInsert after TreeFind: f is what TreeFind returned (*OldNode,
\* parent and tmp).
InsertFound(t, NewNode, ItemPtr, f) ==
    IF f.p = NULL
    THEN [t |-> IF f.parent = NULL
                THEN [t EXCEPT !.root = NewNode, !.count = @ + 1]
                ELSE HangNode(t, f.parent, f.gender, NewNode),
          ret |-> ubi_trTRUE, OldNode |-> NULL]
    ELSE IF ubi_trDups_OK(t)
    THEN [t |-> HangDup(t, DupDescend(t, ItemPtr, f.p, f.parent, ubi_trRIGHT),
                        NewNode),
          ret |-> ubi_trTRUE, OldNode |-> NULL]
    ELSE IF ubi_trOvwt_OK(t)
    THEN [t |-> ReplaceNode(t, IF f.parent = NULL THEN RootSlot
                               ELSE <<f.parent, t.gender[f.p]>>,
                            f.p, NewNode),
          ret |-> ubi_trTRUE, OldNode |-> f.p]
    ELSE [t |-> t, ret |-> ubi_trFALSE, OldNode |-> f.p]

\* ubi_btInsert after ubi_btInitNode( NewNode ).
InsertNode(t, NewNode, ItemPtr) ==
    InsertFound(t, NewNode, ItemPtr, TreeFind(t, ItemPtr, t.root))

\* Returns the tree, the boolean result and *OldNode.
ubi_btInsert(t, NewNode, ItemPtr) ==
    InsertNode(ubi_btInitNode(t, NewNode), NewNode, ItemPtr)

\* The parent of DeadNode is linked to the only child of DeadNode.
Splice(t, DeadNode) ==
    LET parentp == SlotOf(t, DeadNode)
        tmp == IF t.Link[DeadNode][ubi_trLEFT] # NULL THEN ubi_trLEFT
               ELSE ubi_trRIGHT
        p  == t.Link[DeadNode][tmp]
    IN  WriteSlot(IF p # NULL
                  THEN [t EXCEPT !.Link[p][ubi_trPARENT] =
                                       t.Link[DeadNode][ubi_trPARENT],
                                 !.gender[p] = t.gender[DeadNode]]
                  ELSE t,
                  parentp, p)

\* ubi_btRemove without "(RootPtr->count)--".
ubi_btRemove_KeepCount(t, DeadNode) ==
    Splice(IF t.Link[DeadNode][ubi_trLEFT] # NULL
              /\ t.Link[DeadNode][ubi_trRIGHT] # NULL
           THEN SwapNodes(t, DeadNode, ubi_btPrev(t, DeadNode))
           ELSE t,
           DeadNode)

\* ubi_btRemove without the exchange of a node that has two subtrees.
ubi_btRemove_NoSwap(t, DeadNode) ==
    [Splice(t, DeadNode) EXCEPT !.count = @ - 1]

ubi_btRemove(t, DeadNode) ==
    [Splice(IF t.Link[DeadNode][ubi_trLEFT] # NULL
               /\ t.Link[DeadNode][ubi_trRIGHT] # NULL
            THEN SwapNodes(t, DeadNode, ubi_btPrev(t, DeadNode))
            ELSE t,
            DeadNode)
     EXCEPT !.count = @ - 1]

RECURSIVE BorderUp(_, _, _)
BorderUp(t, FindMe, p) ==
    LET q == t.Link[p][ubi_trPARENT]
    IN  IF q # NULL /\ ubi_trAbNormal(CompareFunc(t, FindMe, q)) = ubi_trEQUAL
        THEN BorderUp(t, FindMe, q)
        ELSE p

RECURSIVE BorderDown(_, _, _, _, _)
BorderDown(t, FindMe, p, q, whichway) ==
    IF q = NULL THEN p
    ELSE LET f == qFind(t, FindMe, q)
         IN  IF f # NULL
             THEN BorderDown(t, FindMe, f, t.Link[f][whichway], whichway)
             ELSE p

\* The second half of Border without the way down.
BorderFrom_Top(t, FindMe, top, whichway) == top

\* The second half of Border: down from the topmost node with the key.
BorderFrom(t, FindMe, top, whichway) ==
    BorderDown(t, FindMe, top, t.Link[top][whichway], whichway)

\* Border that returns its starting point in every tree.
Border_Stay(t, FindMe, p, whichway) == p

Border(t, FindMe, p, whichway) ==
    IF ~ubi_trDups_OK(t) \/ whichway = ubi_trPARENT THEN p
    ELSE BorderFrom(t, FindMe, BorderUp(t, FindMe, p), whichway)

\* LocateFound with LT resolved from the match itself, not from the first
\* of the nodes with its key.
LocateFound_NoBorder(t, FindMe, CompOp, f) ==
    IF f.p # NULL
    THEN CASE CompOp = ubi_trLT -> Neighbor(t, f.p, ubi_trLEFT)
           [] CompOp = ubi_trGT ->
                Neighbor(t, Border(t, FindMe, f.p, ubi_trRIGHT), ubi_trRIGHT)
           [] OTHER -> Border(t, FindMe, f.p, ubi_trLEFT)
    ELSE IF CompOp = ubi_trEQ THEN NULL
    ELSE IF CompOp = ubi_trLT \/ CompOp = ubi_trLE
    THEN IF f.gender = ubi_trLEFT THEN Neighbor(t, f.parent, f.gender)
         ELSE f.parent
    ELSE IF f.gender = ubi_trRIGHT THEN Neighbor(t, f.parent, f.gender)
         ELSE f.parent

\* ubi_btLocate after TreeFind: f is what TreeFind returned (p, parent and
\* whichkid).
LocateFound(t, FindMe, CompOp, f) ==
    IF f.p # NULL
    THEN CASE CompOp = ubi_trLT ->
                Neighbor(t, Border(t, FindMe, f.p, ubi_trLEFT), ubi_trLEFT)
           [] CompOp = ubi_trGT ->
                Neighbor(t, Border(t, FindMe, f.p, ubi_trRIGHT), ubi_trRIGHT)
           [] OTHER -> Border(t, FindMe, f.p, ubi_trLEFT)
    ELSE IF CompOp = ubi_trEQ THEN NULL
    ELSE IF CompOp = ubi_trLT \/ CompOp = ubi_trLE
    THEN IF f.gender = ubi_trLEFT THEN Neighbor(t, f.parent, f.gender)
         ELSE f.parent
    ELSE IF f.gender = ubi_trRIGHT THEN Neighbor(t, f.parent, f.gender)
         ELSE f.parent

ubi_btLocate(t, FindMe, CompOp) ==
    LocateFound(t, FindMe, CompOp, TreeFind(t, FindMe, t.root))

ubi_btFind(t, FindMe) == qFind(t, FindMe, t.root)

\* Returns NULL when p is NULL or the key is not that of p.
ubi_btFirstOf(t, MatchMe, p) ==
    IF p = NULL
       \/ ubi_trEQUAL # ubi_trAbNormal(CompareFunc(t, MatchMe, p))
    THEN NULL
    ELSE Border(t, MatchMe, p, ubi_trLEFT)

\* The test of the starting point is "(NULL != p) || ...": for a node p the
\* first half is true, and the comparison is not made.  (For a NULL p the
\* code would compare with NULL; the operator is applied to nodes only.)
ubi_btLastOf(t, MatchMe, p) ==
    IF p # NULL
       \/ ubi_trEQUAL # ubi_trAbNormal(CompareFunc(t, MatchMe, p))
    THEN NULL
    ELSE Border(t, MatchMe, p, ubi_trRIGHT)

\* What the library knows of a node when it hands it to the caller's
\* FreeNode: the node, and whether the header's root pointer or a link of
\* a node still in the tree (live) refers to it at that moment.
\* own[n] says whose the node n is: "in" the tree, "out" of it (the
\* caller's) and, during a call, "removed" (taken out of the tree by this
\* call) or "freed" (handed to FreeNode by this call).  again: the node had
\* been freed already, or was not the library's to free.
Referenced(t, q, own) ==
    \/ t.root = q
    \/ \E n \in Nodes \ {q} :
          own[n] = "in" /\ \E w \in Ways : t.Link[n][w] = q

Callback(t, q, own) ==
    [node |-> q, linked |-> Referenced(t, q, own),
     again |-> own[q] \in {"out", "freed"}]

\* The inner loop of ubi_btKillTree left out.
KillDescend_Stay(t, q) == q

\* The inner loop of ubi_btKillTree: down to a node without children.
RECURSIVE KillDescend(_, _)
KillDescend(t, q) ==
    IF t.Link[q][ubi_trRIGHT] # NULL
    THEN KillDescend(t, SubSlide(t, t.Link[q][ubi_trRIGHT], ubi_trLEFT))
    ELSE q

\* "p->Link[ ((p->Link[ubi_trLEFT] == q)?ubi_trLEFT:ubi_trRIGHT) ] = NULL"
\* for the parent p of q, if there is one.
Unhook(t, q) ==
    LET p == t.Link[q][ubi_trPARENT]
    IN  IF p # NULL
        THEN [t EXCEPT !.Link[p][IF t.Link[p][ubi_trLEFT] = q
                                 THEN ubi_trLEFT ELSE ubi_trRIGHT] = NULL]
        ELSE t

RECURSIVE KillLoop(_, _, _, _, _)
RECURSIVE KillNode(_, _, _, _, _)
RECURSIVE KillFree(_, _, _, _, _, _)

\* The outer loop of ubi_btKillTree, from the test of p.
KillLoop(t, p, count, log, own) ==
    IF p = NULL THEN [t |-> t, count |-> count, log |-> log, own |-> own]
    ELSE KillNode(t, KillDescend(t, p), count, log, own)

\* The loop body once q is found: p is the parent of q, q is unhooked.
KillNode(t, q, count, log, own) ==
    KillFree(Unhook(t, q), q, t.Link[q][ubi_trPARENT], count, log, own)

\* "(*FreeNode)((void *)q); count++;" and round the loop again.
KillFree(t, q, p, count, log, own) ==
    KillLoop(t, p, count + 1, Append(log, Callback(t, q, own)),
             [own EXCEPT ![q] = "freed"])

\* "(void)ubi_btInitTree( RootPtr, RootPtr->cmp, RootPtr->flags )".
KillInit(k) == [k EXCEPT !.t = ubi_btInitTree(k.t, k.t.flags)]

\* FreeNode is NULL or not.  Returns the tree, the count returned, the
\* calls of FreeNode made, in order, and the owners afterwards.
ubi_btKillTree(t, FreeNode, own) ==
    IF FreeNode = NULL
    THEN [t |-> t, count |-> 0, log |-> <<>>, own |-> own]
    ELSE KillInit(KillLoop(t, ubi_btFirst(t, t.root), 0, <<>>, own))

MAXPATHS == 4

\* The filling loops without the test "j < (MAXPATHS-1)".
RECURSIVE LeafFill_Unlimited(_, _, _, _, _, _)
LeafFill_Unlimited(t, q, whichway, i, p, limited) ==
    IF i > Len(q) THEN p
    ELSE LeafFill_Unlimited(t, q, whichway, i + 1,
                            IF t.Link[q[i]][whichway] # NULL
                            THEN Append(p, t.Link[q[i]][whichway]) ELSE p,
                            limited)

\* The two filling loops of ubi_btLeafNode; p is the part of the array p[]
\* written so far (j is its length), q holds the paths entries copied from
\* p[].  Only the second loop tests j (limited).
RECURSIVE LeafFill(_, _, _, _, _, _)
LeafFill(t, q, whichway, i, p, limited) ==
    IF i > Len(q) \/ (limited /\ Len(p) >= MAXPATHS - 1) THEN p
    ELSE LeafFill(t, q, whichway, i + 1,
                  IF t.Link[q[i]][whichway] # NULL
                  THEN Append(p, t.Link[q[i]][whichway]) ELSE p,
                  limited)

\* The loop of ubi_btLeafNode without the second filling loop.
RECURSIVE LeafLoop_OneWay(_, _, _, _)
LeafLoop_OneWay(t, p, q, whichway) ==
    IF Len(p) = 0 THEN q[1]
    ELSE LeafLoop_OneWay(t, LeafFill(t, p, whichway, 1, <<>>, FALSE), p,
                         ubi_trRevWay(whichway))

RECURSIVE LeafLoop(_, _, _, _)
LeafLoop(t, p, q, whichway) ==
    IF Len(p) = 0 THEN q[1]
    ELSE LET p1 == LeafFill(t, p, whichway, 1, <<>>, FALSE)
             p2 == LeafFill(t, p, ubi_trRevWay(whichway), 1, p1, TRUE)
         IN  LeafLoop(t, p2, p, ubi_trRevWay(whichway))

\* ubi_btLeafNode that does not go down from leader.
ubi_btLeafNode_Leader(t, leader) == leader

ubi_btLeafNode(t, leader) ==
    IF leader = NULL THEN NULL
    ELSE LeafLoop(t, <<leader>>, <<>>, ubi_trLEFT)

\* ------------------------------------------------------------------------
\* ubi_SplayTree.c.

\* Rotate, first part: the subtree tmp of p on the side revway becomes the
\* subtree of parentp on the side way.
RotateInner(t, p, parentp, way, revway) ==
    LET tmp == t.Link[p][revway]
    IN  IF tmp # NULL
        THEN [t EXCEPT !.Link[parentp][way] = tmp,
                       !.Link[tmp][ubi_trPARENT] = parentp,
                       !.gender[tmp] = way]
        ELSE [t EXCEPT !.Link[parentp][way] = tmp]

\* Rotate, second part: p takes the place of parentp under tmp, the parent
\* of parentp.
RotateUp(t, p, parentp) ==
    LET tmp == t.Link[parentp][ubi_trPARENT]
    IN  IF tmp # NULL
        THEN [t EXCEPT !.Link[p][ubi_trPARENT] = tmp,
                       !.gender[p] = t.gender[parentp],
                       !.Link[tmp][t.gender[parentp]] = p]
        ELSE [t EXCEPT !.Link[p][ubi_trPARENT] = tmp,
                       !.gender[p] = t.gender[parentp]]

\* RotateDown without "parentp->gender = revway".
RotateDown_KeepGender(t, p, parentp, revway) ==
    [t EXCEPT !.Link[parentp][ubi_trPARENT] = p,
              !.Link[p][revway] = parentp]

\* Rotate, third part: parentp becomes the child of p on the side revway.
RotateDown(t, p, parentp, revway) ==
    [t EXCEPT !.Link[parentp][ubi_trPARENT] = p,
              !.gender[parentp] = revway,
              !.Link[p][revway] = parentp]

\* Rotate when there is a parent.
RotateWith(t, p, parentp, way, revway) ==
    RotateDown(RotateUp(RotateInner(t, p, parentp, way, revway), p, parentp),
               p, parentp, revway)

Rotate(t, p) ==
    IF t.Link[p][ubi_trPARENT] = NULL THEN t
    ELSE RotateWith(t, p, t.Link[p][ubi_trPARENT], t.gender[p],
                    ubi_trRevWay(t.gender[p]))

\* A round of Splay that makes the last rotation only.
ZigZigZag_Single(t, SplayWithMe, parent) == t

\* The first rotation of a round of Splay, if there is one.
ZigZigZag(t, SplayWithMe, parent) ==
    IF t.gender[parent] = t.gender[SplayWithMe] THEN Rotate(t, parent)
    ELSE IF t.gender[parent] # ubi_trEQUAL THEN Rotate(t, SplayWithMe)
    ELSE t

\* Splay returns its argument; the operator returns the tree.
RECURSIVE Splay(_, _)
Splay(t, SplayWithMe) ==
    IF t.Link[SplayWithMe][ubi_trPARENT] = NULL THEN t
    ELSE Splay(Rotate(ZigZigZag(t, SplayWithMe,
                                t.Link[SplayWithMe][ubi_trPARENT]),
                      SplayWithMe),
               SplayWithMe)

\* "RootPtr->root = Splay( p )".
SplayRoot(t, p) == [Splay(t, p) EXCEPT !.root = p]

\* ubi_sptInsert after ubi_btInsert, which returned r.
Inserted(r, NewNode) ==
    [r EXCEPT !.t = IF r.ret # ubi_trFALSE THEN SplayRoot(@, NewNode)
                    ELSE SplayRoot(@, r.OldNode)]

ubi_sptInsert(t, NewNode, ItemPtr) ==
    Inserted(ubi_btInsert(t, NewNode, ItemPtr), NewNode)

\* "p->Link[ubi_trPARENT] = NULL; p->gender = ubi_trPARENT".
Orphan(t, p) ==
    [t EXCEPT !.Link[p][ubi_trPARENT] = NULL, !.gender[p] = ubi_trPARENT]

\* "p->Link[ubi_trRIGHT] = q; if( q ) q->Link[ubi_trPARENT] = p".
Attach(t, p, q) ==
    IF q # NULL
    THEN [t EXCEPT !.Link[p][ubi_trRIGHT] = q, !.Link[q][ubi_trPARENT] = p]
    ELSE [t EXCEPT !.Link[p][ubi_trRIGHT] = q]

\* The right subtree q is attached to the last node p of the left subtree,
\* and the tree is splayed at p.
Join(t, p, q) == SplayRoot(Attach(t, p, q), p)

\* Prune without "RootPtr->root = NULL" for a node without subtrees.
Prune_KeepRoot(t, DeadNode) ==
    LET p == t.Link[DeadNode][ubi_trLEFT]
        q == t.Link[DeadNode][ubi_trRIGHT]
    IN  IF p # NULL
        THEN Join(Orphan(t, p), ubi_btLast(Orphan(t, p), p), q)
        ELSE IF q # NULL THEN [Orphan(t, q) EXCEPT !.root = q]
        ELSE t

\* Prune without the second Splay: the left child of the dead node stays
\* the root.
Prune_NoResplay(t, DeadNode) ==
    LET p == t.Link[DeadNode][ubi_trLEFT]
        q == t.Link[DeadNode][ubi_trRIGHT]
    IN  IF p # NULL
        THEN [Attach(Orphan(t, p), ubi_btLast(Orphan(t, p), p), q)
                 EXCEPT !.root = p]
        ELSE IF q # NULL THEN [Orphan(t, q) EXCEPT !.root = q]
        ELSE [t EXCEPT !.root = NULL]

\* ubi_sptRemove after "(void)Splay( DeadNode )", up to the new root.
Prune(t, DeadNode) ==
    LET p == t.Link[DeadNode][ubi_trLEFT]
        q == t.Link[DeadNode][ubi_trRIGHT]
    IN  IF p # NULL
        THEN Join(Orphan(t, p), ubi_btLast(Orphan(t, p), p), q)
        ELSE IF q # NULL THEN [Orphan(t, q) EXCEPT !.root = q]
        ELSE [t EXCEPT !.root = NULL]

\* ubi_sptRemove without "(RootPtr->count)--".
ubi_sptRemove_KeepCount(t, DeadNode) == Prune(Splay(t, DeadNode), DeadNode)

ubi_sptRemove(t, DeadNode) ==
    [Prune(Splay(t, DeadNode), DeadNode) EXCEPT !.count = @ - 1]

\* Found that splays the tree when no node was found, too.
Found_Rebalanced(t, p) ==
    [t |-> IF p # NULL THEN SplayRoot(t, p)
           ELSE IF t.root # NULL
           THEN SplayRoot(t, ubi_btLeafNode(t, t.root))
           ELSE t,
     p |-> p]

\* "if( p ) RootPtr->root = Splay( p ); return( p )": returns the tree and
\* the node.
Found(t, p) == [t |-> IF p # NULL THEN SplayRoot(t, p) ELSE t, p |-> p]

ubi_sptLocate(t, FindMe, CompOp) == Found(t, ubi_btLocate(t, FindMe, CompOp))

\* Found without "RootPtr->root = ...".
Found_KeepRoot(t, p) == [t |-> IF p # NULL THEN Splay(t, p) ELSE t, p |-> p]

ubi_sptFind_KeepRoot(t, FindMe) == Found_KeepRoot(t, ubi_btFind(t, FindMe))

ubi_sptFind(t, FindMe) == Found(t, ubi_btFind(t, FindMe))

ubi_sptSplay(t, SplayMe) == SplayRoot(t, SplayMe)

\* ------------------------------------------------------------------------
\* ubi_AVLtree: ubi_avlInsert and ubi_avlRemove are the base Insert and
\* Remove followed by a walk upward that adjusts the balance fields and
\* rotates (once or twice) where a node would lean by two; the walk stops
\* where the height of the subtree has not changed.  The balance of a node
\* is ubi_trLEFT, ubi_trEQUAL or ubi_trRIGHT.

\* "RootPtr->root = ..." after a rotation that brought p up.
AvlRoot(t, p) ==
    IF t.Link[p][ubi_trPARENT] = NULL THEN [t EXCEPT !.root = p] ELSE t

\* Single rotation: the child c of p is rotated up; the two get the
\* balances bp and bc.
AvlSingle(t, p, c, bp, bc) ==
    [AvlRoot(Rotate(t, c), c) EXCEPT !.balance[p] = bp, !.balance[c] = bc]

\* Double rotation: the child g of c on the side away from way (c is the
\* child of p on the side way) is rotated up twice; bg is its balance
\* before.
AvlDouble(t, p, c, g, way, bg) ==
    [AvlRoot(Rotate(Rotate(t, g), g), g)
       EXCEPT !.balance[p] = IF bg = way THEN ubi_trRevWay(way)
                             ELSE ubi_trEQUAL,
              !.balance[c] = IF bg = ubi_trRevWay(way) THEN way
                             ELSE ubi_trEQUAL,
              !.balance[g] = ubi_trEQUAL]

\* The rotation at p, which leans to the side way and has grown there.
AvlGrown(t, p, c, way) ==
    IF t.balance[c] = way
    THEN AvlSingle(t, p, c, ubi_trEQUAL, ubi_trEQUAL)
    ELSE AvlDouble(t, p, c, t.Link[c][ubi_trRevWay(way)], way,
                   t.balance[t.Link[c][ubi_trRevWay(way)]])

\* Rebalance that never rotates.
RECURSIVE Rebalance_NoRotate(_, _, _)
Rebalance_NoRotate(t, p, LorR) ==
    IF p = NULL THEN t
    ELSE IF t.balance[p] = ubi_trEQUAL
    THEN Rebalance_NoRotate([t EXCEPT !.balance[p] = LorR],
                            t.Link[p][ubi_trPARENT], t.gender[p])
    ELSE IF t.balance[p] # LorR
    THEN [t EXCEPT !.balance[p] = ubi_trEQUAL]
    ELSE t

\* After an insertion: the subtree on the side LorR of p has grown by one.
RECURSIVE Rebalance(_, _, _)
Rebalance(t, p, LorR) ==
    IF p = NULL THEN t
    ELSE IF t.balance[p] = ubi_trEQUAL
    THEN Rebalance([t EXCEPT !.balance[p] = LorR],
                   t.Link[p][ubi_trPARENT], t.gender[p])
    ELSE IF t.balance[p] # LorR
    THEN [t EXCEPT !.balance[p] = ubi_trEQUAL]
    ELSE AvlGrown(t, p, t.Link[p][LorR], LorR)

RECURSIVE Debalance(_, _, _)

\* Debalance goes on above p, which has come up by a rotation.
DebalanceAbove(t, p) == Debalance(t, t.Link[p][ubi_trPARENT], t.gender[p])

\* The rotation at p, which leans to the side way and has shrunk on the
\* other side.
AvlShrunk(t, p, c, way) ==
    IF t.balance[c] = ubi_trEQUAL
    THEN AvlSingle(t, p, c, way, ubi_trRevWay(way))
    ELSE IF t.balance[c] = way
    THEN DebalanceAbove(AvlSingle(t, p, c, ubi_trEQUAL, ubi_trEQUAL), c)
    ELSE DebalanceAbove(AvlDouble(t, p, c, t.Link[c][ubi_trRevWay(way)], way,
                                  t.balance[t.Link[c][ubi_trRevWay(way)]]),
                        t.Link[c][ubi_trRevWay(way)])

\* After a removal: the subtree on the side LorR of p has shrunk by one.
Debalance(t, p, LorR) ==
    IF p = NULL THEN t
    ELSE IF t.balance[p] = LorR
    THEN Debalance([t EXCEPT !.balance[p] = ubi_trEQUAL],
                   t.Link[p][ubi_trPARENT], t.gender[p])
    ELSE IF t.balance[p] = ubi_trEQUAL
    THEN [t EXCEPT !.balance[p] = ubi_trRevWay(LorR)]
    ELSE AvlShrunk(t, p, t.Link[p][ubi_trRevWay(LorR)], ubi_trRevWay(LorR))

\* ubi_avlInsert after ubi_btInsert, which returned r: a node that
\* replaced another has its place and its balance; a new leaf makes the
\* subtrees above it grow.
AvlInserted(r, NewNode) ==
    IF r.ret = ubi_trFALSE \/ r.OldNode # NULL THEN r
    ELSE [r EXCEPT !.t = Rebalance(@, @.Link[NewNode][ubi_trPARENT],
                                   @.gender[NewNode])]

ubi_avlInsert(t, NewNode, ItemPtr) ==
    AvlInserted(ubi_btInsert(t, NewNode, ItemPtr), NewNode)

\* ubi_avlRemove after ubi_btRemove, which left t: DeadNode still holds
\* the parent and the gender it was spliced out with.
AvlRemoved(t, DeadNode) ==
    Debalance(t, t.Link[DeadNode][ubi_trPARENT], t.gender[DeadNode])

ubi_avlRemove(t, DeadNode) == AvlRemoved(ubi_btRemove(t, DeadNode), DeadNode)

\* Validate of avl-test.c: the height of the subtree of NodePtr, and
\* whether no balance in it is reported as not valid.
RECURSIVE Height(_, _)
Height(t, NodePtr) ==
    IF NodePtr = NULL THEN 0
    ELSE LET left == Height(t, t.Link[NodePtr][ubi_trLEFT])
             right == Height(t, t.Link[NodePtr][ubi_trRIGHT])
         IN  1 + (IF left > right THEN left ELSE right)

RECURSIVE Validate(_, _)
Validate(t, NodePtr) ==
    IF NodePtr = NULL THEN TRUE
    ELSE /\ Validate(t, t.Link[NodePtr][ubi_trLEFT])
         /\ Validate(t, t.Link[NodePtr][ubi_trRIGHT])
         /\ t.balance[NodePtr] =
               (Height(t, t.Link[NodePtr][ubi_trRIGHT])
                  - Height(t, t.Link[NodePtr][ubi_trLEFT])) + ubi_trEQUAL

\* ------------------------------------------------------------------------
\* ubi_btTraverse.  The visitor EachNode is the caller's: visit says which
\* nodes it takes out of the tree when it is given them (doomed) and with
\* which Remove (splay or base), as the loop of Prune in avl-test.c does;
\* the other nodes it only looks at.

EachNode(t, p, visit) ==
    IF p \in visit.doomed
    THEN IF visit.splay THEN ubi_sptRemove(t, p) ELSE ubi_btRemove(t, p)
    ELSE t

RECURSIVE TraverseLoop(_, _, _, _, _, _)
RECURSIVE TraverseVisit(_, _, _, _, _, _, _)

\* The loop with the next node looked for after the call of EachNode.
TraverseLoop_Late(t, p, count, log, own, visit) ==
    IF p = NULL THEN [t |-> t, count |-> count, log |-> log, own |-> own]
    ELSE TraverseVisit(t, p, ubi_btNext(EachNode(t, p, visit), p),
                       count, log, own, visit)

\* The loop of ubi_btTraverse, from the test of p.
TraverseLoop(t, p, count, log, own, visit) ==
    IF p = NULL THEN [t |-> t, count |-> count, log |-> log, own |-> own]
    ELSE TraverseVisit(t, p, ubi_btNext(t, p), count, log, own, visit)

\* "(*EachNode)( p, UserData ); count++; p = q;" and round the loop again.
TraverseVisit(t, p, q, count, log, own, visit) ==
    TraverseLoop(EachNode(t, p, visit), q, count + 1,
                 Append(log, Callback(t, p, own)),
                 IF p \in visit.doomed THEN [own EXCEPT ![p] = "removed"]
                 ELSE own,
                 visit)

\* Returns the tree, the count returned, the calls of EachNode made, in
\* order, and the owners afterwards.
ubi_btTraverse(t, visit, own) ==
    TraverseLoop(t, ubi_btFirst(t, t.root), 0, <<>>, own, visit)

\* ubi_btKillTree with its first test: RootPtr is NULL or the tree.
KillTreeAt(RootPtr, t, FreeNode, own) ==
    IF RootPtr = NULL
    THEN [t |-> t, count |-> 0, log |-> <<>>, own |-> own]
    ELSE ubi_btKillTree(t, FreeNode, own)

\* ------------------------------------------------------------------------
\* ubi_Cache.c.  A cache is the record
\*    [t, entry_size, mem_used, max_entries, max_memory, cache_hits,
\*     cache_trys]
\* (t is the splay tree "root" with the node fields of the entries) and,
\* to observe the calls of free_func, log (the calls made) and own.

UShort == 65536
HalveAt == 65534

\* free_entry without "CachePtr->mem_used -= EntryPtr->entry_size".
free_entry_KeepMem(c, EntryPtr) ==
    [c EXCEPT !.log = Append(@, Callback(c.t, EntryPtr, c.own)),
              !.own[EntryPtr] = "freed"]

free_entry(c, EntryPtr) ==
    [c EXCEPT !.mem_used = @ - c.entry_size[EntryPtr],
              !.log = Append(@, Callback(c.t, EntryPtr, c.own)),
              !.own[EntryPtr] = "freed"]

\* "(void)ubi_trRemove( CachePtr, NodePtr )".
Removed(c, NodePtr) ==
    [c EXCEPT !.t = ubi_sptRemove(@, NodePtr), !.own[NodePtr] = "removed"]

RECURSIVE ubi_cacheReduce(_, _)
RECURSIVE ReduceLeaf(_, _, _)

\* Returns the cache and the boolean result.
ubi_cacheReduce(c, count) ==
    IF count = 0 THEN [c |-> c, ret |-> ubi_trTRUE]
    ELSE ReduceLeaf(c, ubi_btLeafNode(c.t, c.t.root), count)

\* ReduceLeaf that reports success when the cache has run empty.
ReduceLeaf_True(c, NodePtr, count) ==
    IF NodePtr = NULL THEN [c |-> c, ret |-> ubi_trTRUE]
    ELSE ubi_cacheReduce(free_entry(Removed(c, NodePtr), NodePtr), count - 1)

\* The loop body of ubi_cacheReduce once NodePtr is found.
ReduceLeaf(c, NodePtr, count) ==
    IF NodePtr = NULL THEN [c |-> c, ret |-> ubi_trFALSE]
    ELSE ubi_cacheReduce(free_entry(Removed(c, NodePtr), NodePtr), count - 1)

\* The test of the loop of cachetrim on the limits lim (a cache), for a
\* cache of cnt entries that use mem.
Exceeded(lim, cnt, mem) ==
    \/ (lim.max_entries # 0 /\ lim.max_entries < cnt)
    \/ (lim.max_memory # 0 /\ lim.max_memory < mem)

RECURSIVE cachetrim(_)
RECURSIVE TrimMore(_)

\* cachetrim that throws out two entries a round.
cachetrim_Twice(c) ==
    IF \/ (c.max_entries # 0 /\ c.max_entries < c.t.count)
       \/ (c.max_memory # 0 /\ c.max_memory < c.mem_used)
    THEN TrimMore(ubi_cacheReduce(c, 2))
    ELSE c

cachetrim(c) ==
    IF \/ (c.max_entries # 0 /\ c.max_entries < c.t.count)
       \/ (c.max_memory # 0 /\ c.max_memory < c.mem_used)
    THEN TrimMore(ubi_cacheReduce(c, 1))
    ELSE c

\* "if( !ubi_cacheReduce( crptr, 1 ) ) return;" and round the loop again.
TrimMore(r) == IF r.ret = ubi_trFALSE THEN r.c ELSE cachetrim(r.c)

ubi_cacheInit(c, MaxEntries, MaxMemory) ==
    [c EXCEPT !.t = ubi_btInitTree(@, ubi_trOVERWRITE),
              !.max_entries = MaxEntries,
              !.max_memory = MaxMemory,
              !.mem_used = 0,
              !.cache_hits = 0,
              !.cache_trys = 0]

\* Cleared that leaves cache_hits as it was.
Cleared_KeepHits(c, k) ==
    [c EXCEPT !.t = k.t,
              !.log = @ \o k.log,
              !.own = k.own,
              !.mem_used = 0,
              !.cache_trys = 0]

\* ubi_cacheClear after ubi_trKillTree, which returned k.
Cleared(c, k) ==
    [c EXCEPT !.t = k.t,
              !.log = @ \o k.log,
              !.own = k.own,
              !.mem_used = 0,
              !.cache_hits = 0,
              !.cache_trys = 0]

ubi_cacheClear(c) == Cleared(c, ubi_btKillTree(c.t, 1, c.own))

\* "EntryPtr->entry_size = EntrySize; CachePtr->mem_used += EntrySize".
Sized(c, EntrySize, EntryPtr) ==
    [c EXCEPT !.entry_size[EntryPtr] = EntrySize,
              !.mem_used = @ + EntrySize]

\* ubi_cachePut after ubi_trInsert, which returned r: the tree, and whose
\* the entries are now.
Put(c, EntryPtr, r) ==
    [c EXCEPT !.t = r.t,
              !.own = [n \in Nodes |->
                         IF n = EntryPtr THEN "in"
                         ELSE IF n = r.OldNode THEN "removed"
                         ELSE c.own[n]]]

\* ubi_cachePut without the call of free_entry.
FreeOld_Never(c, OldNode) == c

\* "if( OldNode ) free_entry( CachePtr, (ubi_cacheEntryPtr)OldNode )".
FreeOld(c, OldNode) ==
    IF OldNode # NULL THEN free_entry(c, OldNode) ELSE c

\* ubi_cachePut up to the call of cachetrim.
PutHeld(c, EntryPtr, r) == FreeOld(Put(c, EntryPtr, r), r.OldNode)

PutTrim(c, EntryPtr, r) == cachetrim(FreeOld(Put(c, EntryPtr, r), r.OldNode))

ubi_cachePut(c, EntrySize, EntryPtr, Key) ==
    PutTrim(Sized(c, EntrySize, EntryPtr), EntryPtr,
            ubi_sptInsert(c.t, EntryPtr, Key))

\* Counted that halves the counters one lookup later.
Counted_Late(c, r) ==
    LET hits == IF r.p # NULL THEN (c.cache_hits + 1) % UShort
                ELSE c.cache_hits
        trys == (c.cache_trys + 1) % UShort
    IN  [c |-> [c EXCEPT !.t = r.t,
                         !.cache_hits = IF trys > HalveAt THEN hits \div 2
                                        ELSE hits,
                         !.cache_trys = IF trys > HalveAt THEN trys \div 2
                                        ELSE trys],
         p |-> r.p]

\* Counted that halves cache_trys alone.
Counted_HalfTrys(c, r) ==
    LET hits == IF r.p # NULL THEN (c.cache_hits + 1) % UShort
                ELSE c.cache_hits
        trys == (c.cache_trys + 1) % UShort
    IN  [c |-> [c EXCEPT !.t = r.t,
                         !.cache_hits = hits,
                         !.cache_trys = IF trys >= HalveAt THEN trys \div 2
                                        ELSE trys],
         p |-> r.p]

\* ubi_cacheGet after ubi_trFind, which returned r.
Counted(c, r) ==
    LET hits == IF r.p # NULL THEN (c.cache_hits + 1) % UShort
                ELSE c.cache_hits
        trys == (c.cache_trys + 1) % UShort
    IN  [c |-> [c EXCEPT !.t = r.t,
                         !.cache_hits = IF trys >= HalveAt THEN hits \div 2
                                        ELSE hits,
                         !.cache_trys = IF trys >= HalveAt THEN trys \div 2
                                        ELSE trys],
         p |-> r.p]

\* Returns the cache and the entry found.
ubi_cacheGet(c, FindMe) == Counted(c, ubi_sptFind(c.t, FindMe))

\* Deleted that does not hand the entry to free_entry.
Deleted_NoFree(c, r) ==
    IF r.p # NULL
    THEN [c |-> Removed([c EXCEPT !.t = r.t], r.p), ret |-> ubi_trTRUE]
    ELSE [c |-> [c EXCEPT !.t = r.t], ret |-> ubi_trFALSE]

\* ubi_cacheDelete after ubi_trFind, which returned r.
Deleted(c, r) ==
    IF r.p # NULL
    THEN [c |-> free_entry(Removed([c EXCEPT !.t = r.t], r.p), r.p),
          ret |-> ubi_trTRUE]
    ELSE [c |-> [c EXCEPT !.t = r.t], ret |-> ubi_trFALSE]

\* Returns the cache and the boolean result.
ubi_cacheDelete(c, DeleteMe) == Deleted(c, ubi_sptFind(c.t, DeleteMe))

\* ubi_cacheSetMaxEntries without "(NewSize && !oldsize)".
ubi_cacheSetMaxEntries_Lower(c, NewSize) ==
    LET oldsize == c.max_entries
        c1 == [c EXCEPT !.max_entries = NewSize]
    IN  [c |-> IF NewSize < oldsize THEN cachetrim(c1) ELSE c1,
         ret |-> oldsize]

\* Both return the cache and the old limit.
ubi_cacheSetMaxEntries(c, NewSize) ==
    LET oldsize == c.max_entries
        c1 == [c EXCEPT !.max_entries = NewSize]
    IN  [c |-> IF NewSize < oldsize \/ (NewSize # 0 /\ oldsize = 0)
               THEN cachetrim(c1) ELSE c1,
         ret |-> oldsize]

\* ubi_cacheSetMaxMemory that writes the limit of entries.
ubi_cacheSetMaxMemory_Entries(c, NewSize) ==
    LET oldsize == c.max_memory
        c1 == [c EXCEPT !.max_entries = NewSize]
    IN  [c |-> IF NewSize < oldsize \/ (NewSize # 0 /\ oldsize = 0)
               THEN cachetrim(c1) ELSE c1,
         ret |-> oldsize]

ubi_cacheSetMaxMemory(c, NewSize) ==
    LET oldsize == c.max_memory
        c1 == [c EXCEPT !.max_memory = NewSize]
    IN  [c |-> IF NewSize < oldsize \/ (NewSize # 0 /\ oldsize = 0)
               THEN cachetrim(c1) ELSE c1,
         ret |-> oldsize]

ubi_cacheHitRatio(c) ==
    IF c.cache_trys # 0 THEN (10000 * c.cache_hits) \div c.cache_trys ELSE 0

\* ------------------------------------------------------------------------
\* ubi_sLinkList.  A list is a record [Head, Tail, count, Next]: the three
\* fields of the ubi_slList header and the Next field of every node.  The
\* functions cast the pointer to the header to a pointer to a node, the
\* Next field of which is then the first field of the header, Head.

\* The address of the list header.
ListPtr == MaxNodes + 2

\* "p->Next", read and written, for a node or for the header taken as one.
NextOf(l, p) == IF p = ListPtr THEN l.Head ELSE l.Next[p]

SetNext(l, p, v) ==
    IF p = ListPtr THEN [l EXCEPT !.Head = v] ELSE [l EXCEPT !.Next[p] = v]

ubi_slInitList(l) ==
    [l EXCEPT !.Head = NULL, !.Tail = ListPtr, !.count = 0]

\* "New->Next = After->Next; After->Next = New".
Linked(l, New, After) == SetNext(SetNext(l, New, NextOf(l, After)), After, New)

\* InsertedAt without "(ListPtr->count)++".
InsertedAt_KeepCount(l, New) ==
    IF NextOf(l, New) = NULL THEN [l EXCEPT !.Tail = New] ELSE l

\* "if( !(New->Next) ) ListPtr->Tail = New; (ListPtr->count)++".
InsertedAt(l, New) ==
    IF NextOf(l, New) = NULL
    THEN [l EXCEPT !.Tail = New, !.count = @ + 1]
    ELSE [l EXCEPT !.count = @ + 1]

\* Returns the list; the function returns New.
ubi_slInsert(l, New, After) ==
    InsertedAt(Linked(l, New, IF After # NULL THEN After ELSE ListPtr), New)

\* Unlinked without "ListPtr->Tail = AfterMe".
Unlinked_KeepTail(l, AfterMe, DelNode) ==
    [SetNext(l, AfterMe, NextOf(l, DelNode)) EXCEPT !.count = @ - 1]

\* ubi_slRemoveNext when there is a node DelNode after AfterMe.
Unlinked(l, AfterMe, DelNode) ==
    [SetNext(IF NextOf(l, DelNode) = NULL THEN [l EXCEPT !.Tail = AfterMe]
             ELSE l,
             AfterMe, NextOf(l, DelNode))
        EXCEPT !.count = @ - 1]

\* ubi_slRemoveNext with AfterMe not NULL: returns the list and DelNode.
RemoveAfter(l, AfterMe) ==
    IF NextOf(l, AfterMe) # NULL
    THEN [l |-> Unlinked(l, AfterMe, NextOf(l, AfterMe)),
          DelNode |-> NextOf(l, AfterMe)]
    ELSE [l |-> l, DelNode |-> NULL]

ubi_slRemoveNext(l, AfterMe) ==
    RemoveAfter(l, IF AfterMe = NULL THEN ListPtr ELSE AfterMe)

\* The macros of ubi_sLinkList.h.
ubi_slCount(l) == l.count
ubi_slAddTail(l, N) == ubi_slInsert(l, N, l.Tail)
ubi_slRemHead(l) == ubi_slRemoveNext(l, NULL)
ubi_slFirst(l) == l.Head
ubi_slNext(l, N) == l.Next[N]
ubi_slLast(l) == l.Tail

\* ------------------------------------------------------------------------
\* The state: the node fields and the payload (key, entry_size) of every
\* node, the tree header, the rest of the cache header, and what the caller
\* saw of the last call (last, with the calls of the free function it made
\* in log) and who owns each node (own).  btTree is a second tree, of the
\* same nodes, for the specification that makes the calls of
\* ubi_SplayTree.c on the first and those of ubi_BinTree.c on the second;
\* the other specifications leave it blank.
\* slList is a singly-linked list (the ubi_slList header and the Next
\* field of every ubi_slNode), for the list specification.

VARIABLES Link, gender, balance, key, root, count, flags,
          entry_size, mem_used, max_entries, max_memory,
          cache_hits, cache_trys, own, log, last, btTree, slList

vars == <<Link, gender, balance, key, root, count, flags,
          entry_size, mem_used, max_entries, max_memory,
          cache_hits, cache_trys, own, log, last, btTree, slList>>

cacheVars == <<entry_size, mem_used, max_entries, max_memory,
               cache_hits, cache_trys>>

Tree == [Link |-> Link, gender |-> gender, balance |-> balance, key |-> key,
         root |-> root, count |-> count, flags |-> flags]

Cache == [t |-> Tree, entry_size |-> entry_size, mem_used |-> mem_used,
          max_entries |-> max_entries, max_memory |-> max_memory,
          cache_hits |-> cache_hits, cache_trys |-> cache_trys,
          log |-> <<>>, own |-> own]

\* The fields of a node that is not in the tree are the caller's, or gone
\* with free(): no function of the library reads them before it has written
\* them (ubi_btInsert starts with ubi_btInitNode, ubi_cachePut with
\* entry_size), so the state keeps one fixed value for them.
Released(t, o) ==
    [t EXCEPT !.Link = [n \in Nodes |-> IF o[n] # "in" THEN NoLinks
                                        ELSE t.Link[n]],
              !.gender = [n \in Nodes |-> IF o[n] # "in" THEN ubi_trEQUAL
                                          ELSE t.gender[n]],
              !.balance = [n \in Nodes |-> IF o[n] # "in" THEN ubi_trEQUAL
                                           ELSE t.balance[n]],
              !.key = [n \in Nodes |-> IF o[n] # "in" THEN 1
                                       ELSE t.key[n]]]

SetTree(t, o) ==
    LET r == Released(t, o)
    IN  /\ Link' = r.Link
        /\ gender' = r.gender
        /\ balance' = r.balance
        /\ key' = r.key
        /\ root' = r.root
        /\ count' = r.count
        /\ flags' = r.flags
        /\ own' = [n \in Nodes |-> IF o[n] = "in" THEN "in" ELSE "out"]

SetCache(c) ==
    /\ SetTree(c.t, c.own)
    /\ entry_size' = [n \in Nodes |-> IF c.own[n] # "in" THEN 0
                                      ELSE c.entry_size[n]]
    /\ mem_used' = c.mem_used
    /\ max_entries' = c.max_entries
    /\ max_memory' = c.max_memory
    /\ cache_hits' = c.cache_hits
    /\ cache_trys' = c.cache_trys
    /\ log' = c.log
    /\ btTree' = btTree
    /\ slList' = slList

Kids(n) ==
    Cardinality({w \in {ubi_trLEFT, ubi_trRIGHT} : Link[n][w] # NULL})

\* The record of a call: its name and arguments, what it returned, and the
\* count and the number of children of its node argument before the call.
Call(op, node, k, arg, ret, old) ==
    [op |-> op, node |-> node, key |-> k, arg |-> arg, ret |-> ret,
     old |-> old, cnt0 |-> count,
     kids |-> IF node \in Nodes THEN Kids(node) ELSE 0]

\* The memory of a list header and of the nodes before ubi_slInitList.
NoList ==
    [Head |-> NULL, Tail |-> NULL, count |-> 0, Next |-> [n \in Nodes |-> NULL]]

Blank ==
    [Link |-> [n \in Nodes |-> NoLinks],
     gender |-> [n \in Nodes |-> ubi_trEQUAL],
     balance |-> [n \in Nodes |-> ubi_trEQUAL],
     key |-> [n \in Nodes |-> 1],
     root |-> NULL, count |-> 0, flags |-> 0]

InitOwn == [n \in Nodes |-> "out"]

\* After an insertion: the new node is in the tree when the call
\* succeeded, a replaced node is the caller's again.
OwnAfterInsert(r, NewNode) ==
    [n \in Nodes |->
        IF n = NewNode
        THEN (IF r.ret # ubi_trFALSE THEN "in" ELSE "out")
        ELSE IF n = r.OldNode /\ r.ret # ubi_trFALSE THEN "out"
        ELSE own[n]]

\* ------------------------------------------------------------------------
\* The tree specification: one tree, the calls of ubi_BinTree.c and
\* ubi_SplayTree.c on it.

NoCall ==
    [op |-> "init", node |-> NULL, key |-> 0, arg |-> 0, ret |-> 0,
     old |-> NULL, cnt0 |-> 0, kids |-> 0]

TreeIs(t) ==
    /\ Link = t.Link
    /\ gender = t.gender
    /\ balance = t.balance
    /\ key = t.key
    /\ root = t.root
    /\ count = t.count
    /\ flags = t.flags

Init ==
    /\ \E Flags \in 0..3 : TreeIs(ubi_btInitTree(Blank, Flags))
    /\ own = InitOwn
    /\ entry_size = [n \in Nodes |-> 0]
    /\ mem_used = 0
    /\ max_entries = 0
    /\ max_memory = 0
    /\ cache_hits = 0
    /\ cache_trys = 0
    /\ log = <<>>
    /\ last = NoCall
    /\ btTree = Blank
    /\ slList = NoList

\* The record of a call of ubi_Cache.c: its name and what it returned.
CacheCall(op, ret) == [NoCall EXCEPT !.op = op, !.ret = ret]

\* What the caller has after an insertion that returned r.
InsertDone(op, n, k, r) ==
    /\ SetTree(r.t, OwnAfterInsert(r, n))
    /\ last' = Call(op, n, k, 0, r.ret, r.OldNode)

\* The caller fills in the key of a node it owns and inserts the node.
BtInsert(n, k) ==
    /\ own[n] # "in"
    /\ InsertDone("btInsert", n, k,
                  ubi_btInsert([Tree EXCEPT !.key[n] = k], n, k))
    /\ log' = <<>>
    /\ UNCHANGED <<cacheVars, btTree, slList>>

SptInsert(n, k) ==
    /\ own[n] # "in"
    /\ InsertDone("sptInsert", n, k,
                  ubi_sptInsert([Tree EXCEPT !.key[n] = k], n, k))
    /\ log' = <<>>
    /\ UNCHANGED <<cacheVars, btTree, slList>>

BtRemove(n) ==
    /\ own[n] = "in"
    /\ SetTree(ubi_btRemove(Tree, n), [own EXCEPT ![n] = "out"])
    /\ last' = Call("btRemove", n, 0, 0, n, NULL)
    /\ log' = <<>>
    /\ UNCHANGED <<cacheVars, btTree, slList>>

SptRemove(n) ==
    /\ own[n] = "in"
    /\ SetTree(ubi_sptRemove(Tree, n), [own EXCEPT ![n] = "out"])
    /\ last' = Call("sptRemove", n, 0, 0, n, NULL)
    /\ log' = <<>>
    /\ UNCHANGED <<cacheVars, btTree, slList>>

\* What the caller has after a lookup that returned r.
FindDone(op, k, r) ==
    /\ SetTree(r.t, own)
    /\ last' = Call(op, NULL, k, 0, r.p, NULL)

SptFind(k) ==
    /\ FindDone("sptFind", k, ubi_sptFind(Tree, k))
    /\ log' = <<>>
    /\ UNCHANGED <<cacheVars, btTree, slList>>

\* last keeps the node returned, not the key and the operator asked for.
SptLocate(k, op) ==
    /\ FindDone("sptLocate", 0, ubi_sptLocate(Tree, k, op))
    /\ log' = <<>>
    /\ UNCHANGED <<cacheVars, btTree, slList>>

SptSplay(n) ==
    /\ own[n] = "in"
    /\ SetTree(ubi_sptSplay(Tree, n), own)
    /\ last' = Call("sptSplay", n, 0, 0, 0, NULL)
    /\ log' = <<>>
    /\ UNCHANGED <<cacheVars, btTree, slList>>

\* What the caller has after ubi_btKillTree returned k.
KillDone(FreeNode, k) ==
    /\ SetTree(k.t, k.own)
    /\ log' = k.log
    /\ last' = Call("btKillTree", NULL, 0, FreeNode, k.count, NULL)

KillTree(FreeNode) ==
    /\ KillDone(FreeNode, ubi_btKillTree(Tree, FreeNode, own))
    /\ UNCHANGED <<cacheVars, btTree, slList>>

Next ==
    \/ \E n \in Nodes, k \in Keys : BtInsert(n, k)
    \/ \E n \in Nodes, k \in Keys : SptInsert(n, k)
    \/ \E n \in Nodes : BtRemove(n)
    \/ \E n \in Nodes : SptRemove(n)
    \/ \E k \in Keys : SptFind(k)
    \/ \E k \in Keys, op \in ubi_trLT..ubi_trGT : SptLocate(k, op)
    \/ \E n \in Nodes : SptSplay(n)
    \/ \E FreeNode \in {NULL, 1} : KillTree(FreeNode)

Spec == Init /\ [][Next]_vars

\* ------------------------------------------------------------------------
\* The AVL specification: one tree, ubi_avlInsert and ubi_avlRemove on it.

AvlInsert(n, k) ==
    /\ own[n] # "in"
    /\ InsertDone("avlInsert", n, k,
                  ubi_avlInsert([Tree EXCEPT !.key[n] = k], n, k))
    /\ log' = <<>>
    /\ UNCHANGED <<cacheVars, btTree, slList>>

AvlRemove(n) ==
    /\ own[n] = "in"
    /\ SetTree(ubi_avlRemove(Tree, n), [own EXCEPT ![n] = "out"])
    /\ last' = Call("avlRemove", n, 0, 0, n, NULL)
    /\ log' = <<>>
    /\ UNCHANGED <<cacheVars, btTree, slList>>

AvlNext ==
    \/ \E n \in Nodes, k \in Keys : AvlInsert(n, k)
    \/ \E n \in Nodes : AvlRemove(n)

AvlSpec == Init /\ [][AvlNext]_vars

\* ------------------------------------------------------------------------
\* The cache specification: one cache, the calls of ubi_Cache.c on it.  An
\* entry put into the cache is one the caller owns (not one in the cache).

CacheInit ==
    /\ \E MaxEntries \in 0..MaxLimit, MaxMemory \in 0..MaxLimit :
          LET c == ubi_cacheInit([t |-> Blank,
                                  entry_size |-> [n \in Nodes |-> 0],
                                  mem_used |-> 0, max_entries |-> 0,
                                  max_memory |-> 0, cache_hits |-> 0,
                                  cache_trys |-> 0, log |-> <<>>,
                                  own |-> InitOwn],
                                 MaxEntries, MaxMemory)
          IN  /\ TreeIs(c.t)
              /\ entry_size = c.entry_size
              /\ mem_used = c.mem_used
              /\ max_entries = c.max_entries
              /\ max_memory = c.max_memory
              /\ cache_hits = c.cache_hits
              /\ cache_trys = c.cache_trys
    /\ own = InitOwn
    /\ log = <<>>
    /\ last = NoCall
    /\ btTree = Blank
    /\ slList = NoList

\* What the caller has after a call of ubi_Cache.c that left the cache c.
CacheDone(op, c, ret) ==
    /\ SetCache(c)
    /\ last' = CacheCall(op, ret)

\* What the caller has after ubi_cachePut, which returns nothing, left the
\* cache c: last keeps the entry, the key and the size it was called with.
PutDone(n, k, EntrySize, c) ==
    /\ SetCache(c)
    /\ last' = [CacheCall("cachePut", 0) EXCEPT !.node = n, !.key = k,
                                                !.arg = EntrySize]

CachePut(n, k, EntrySize) ==
    /\ own[n] # "in"
    /\ PutDone(n, k, EntrySize,
               ubi_cachePut([Cache EXCEPT !.t.key[n] = k], EntrySize, n, k))

\* What the caller has after a call of ubi_Cache.c that returned r.
CacheReturn(op, r) == CacheDone(op, r.c, r.ret)

CacheFound(op, r) == CacheDone(op, r.c, r.p)

\* The counters are cut off at MaxTrys lookups.
CacheGet(k) ==
    /\ cache_trys < MaxTrys
    /\ CacheFound("cacheGet", ubi_cacheGet(Cache, k))

\* The same, last keeping the key (or 0) and the number (or 0) the call
\* was made with.
CacheAsked(op, k, arg, r) ==
    /\ SetCache(r.c)
    /\ last' = [CacheCall(op, r.ret) EXCEPT !.key = k, !.arg = arg]

CacheDelete(k) == CacheAsked("cacheDelete", k, 0, ubi_cacheDelete(Cache, k))

CacheReduce(cnt) ==
    CacheAsked("cacheReduce", 0, cnt, ubi_cacheReduce(Cache, cnt))

CacheSetMaxEntries(NewSize) ==
    CacheAsked("cacheSetMaxEntries", 0, NewSize,
               ubi_cacheSetMaxEntries(Cache, NewSize))

CacheSetMaxMemory(NewSize) ==
    CacheAsked("cacheSetMaxMemory", 0, NewSize,
               ubi_cacheSetMaxMemory(Cache, NewSize))

CacheClear == CacheDone("cacheClear", ubi_cacheClear(Cache), 0)

CacheNext ==
    \/ \E n \in Nodes, k \in Keys, EntrySize \in 1..MaxSize :
          CachePut(n, k, EntrySize)
    \/ \E k \in Keys : CacheGet(k)
    \/ \E k \in Keys : CacheDelete(k)
    \/ \E cnt \in 0..MaxNodes : CacheReduce(cnt)
    \/ \E NewSize \in 0..MaxLimit : CacheSetMaxEntries(NewSize)
    \/ \E NewSize \in 0..MaxLimit : CacheSetMaxMemory(NewSize)
    \/ CacheClear

CacheSpec == CacheInit /\ [][CacheNext]_vars

\* ------------------------------------------------------------------------
\* The counter specification: a cache without limits whose two counters
\* start at zero or a few lookups short of 0xFFFE, all hits or all misses
\* (an entry was put, looked up that often by its key or by another, and
\* deleted), and the calls that read or write the counters.  Lookups are
\* made while cache_trys is within MaxTrys of zero or of 0xFFFE.

NearFull == HalveAt - 1 - MaxTrys

CounterInit ==
    /\ \E trys \in {0, NearFull} :
          /\ cache_hits \in {0, trys}
          /\ cache_trys = trys
          /\ last = IF trys = 0 THEN NoCall
                    ELSE [CacheCall("cacheDelete", ubi_trTRUE)
                            EXCEPT !.key = 1]
    /\ TreeIs(ubi_cacheInit([t |-> Blank,
                             entry_size |-> [n \in Nodes |-> 0],
                             mem_used |-> 0, max_entries |-> 0,
                             max_memory |-> 0, cache_hits |-> 0,
                             cache_trys |-> 0, log |-> <<>>,
                             own |-> InitOwn], 0, 0).t)
    /\ entry_size = [n \in Nodes |-> 0]
    /\ mem_used = 0
    /\ max_entries = 0
    /\ max_memory = 0
    /\ own = InitOwn
    /\ log = <<>>
    /\ btTree = Blank
    /\ slList = NoList

CounterPut(n, k) == CachePut(n, k, 1)

CounterGet(k) ==
    /\ cache_trys < MaxTrys \/ cache_trys >= NearFull
    /\ CacheAsked("cacheGet", k, 0,
                  [c |-> ubi_cacheGet(Cache, k).c,
                   ret |-> ubi_cacheGet(Cache, k).p])

CacheHitRatio ==
    CacheDone("cacheHitRatio", Cache, ubi_cacheHitRatio(Cache))

CounterNext ==
    \/ \E n \in Nodes, k \in Keys : CounterPut(n, k)
    \/ \E k \in Keys : CounterGet(k)
    \/ \E k \in Keys : CacheDelete(k)
    \/ CacheClear
    \/ CacheHitRatio

CounterSpec == CounterInit /\ [][CounterNext]_vars

\* ------------------------------------------------------------------------
\* The loop specification: the loops of cachetrim and of ubi_cacheReduce,
\* one round a step.  last.op is "cachetrim" or "ubi_cacheReduce" while
\* the call is at the test of that loop and "return" once it has returned;
\* last.cnt0 keeps the number of entries at the first test, last.rounds
\* the number of tests made, last.arg what ubi_cacheReduce has left to
\* remove, and log the calls of the free function so far.

Loops == {"cachetrim", "ubi_cacheReduce"}

Testing(op, arg, ret) ==
    [op |-> op, node |-> NULL, key |-> 0, arg |-> arg, ret |-> ret,
     old |-> NULL, cnt0 |-> count', kids |-> 0, rounds |-> 0]

\* ubi_cachePut has inserted the entry and freed the one it replaced.
LoopPut(n, k, EntrySize) ==
    /\ last.op \notin Loops
    /\ own[n] # "in"
    /\ SetCache(PutHeld(Sized([Cache EXCEPT !.t.key[n] = k], EntrySize, n), n,
                        ubi_sptInsert([Tree EXCEPT !.key[n] = k], n, k)))
    /\ last' = Testing("cachetrim", 0, 0)

\* The two calls that set a limit, up to the call of cachetrim or, when it
\* is not called, to the end.
LoopSetMaxEntries(NewSize) ==
    /\ last.op \notin Loops
    /\ SetCache([Cache EXCEPT !.max_entries = NewSize])
    /\ last' = Testing(IF NewSize < max_entries
                          \/ (NewSize # 0 /\ max_entries = 0)
                       THEN "cachetrim" ELSE "return", 0, max_entries)

LoopSetMaxMemory(NewSize) ==
    /\ last.op \notin Loops
    /\ SetCache([Cache EXCEPT !.max_memory = NewSize])
    /\ last' = Testing(IF NewSize < max_memory
                          \/ (NewSize # 0 /\ max_memory = 0)
                       THEN "cachetrim" ELSE "return", 0, max_memory)

LoopReduce(cnt) ==
    /\ last.op \notin Loops
    /\ SetCache(Cache)
    /\ last' = Testing("ubi_cacheReduce", cnt, 0)

\* What a round of a loop that called ubi_cacheReduce( crptr, 1 ), which
\* returned r, leaves.
Round(r, left) ==
    /\ SetCache(r.c)
    /\ last' = IF r.ret = ubi_trFALSE
               THEN [last EXCEPT !.op = "return", !.ret = ubi_trFALSE,
                                 !.rounds = @ + 1]
               ELSE [last EXCEPT !.arg = left, !.rounds = @ + 1]

Return(ret) ==
    /\ SetCache([Cache EXCEPT !.log = log])
    /\ last' = [last EXCEPT !.op = "return", !.ret = ret, !.rounds = @ + 1]

\* A round of cachetrim that throws nothing out.
TrimStep_Idle ==
    /\ last.op = "cachetrim"
    /\ IF Exceeded(Cache, count, mem_used)
       THEN Round(ubi_cacheReduce([Cache EXCEPT !.log = log], 0), 0)
       ELSE Return(0)

\* The test of the loop of cachetrim, and a round of it.
TrimStep ==
    /\ last.op = "cachetrim"
    /\ IF Exceeded(Cache, count, mem_used)
       THEN Round(ubi_cacheReduce([Cache EXCEPT !.log = log], 1), 0)
       ELSE Return(0)

\* The test of the loop of ubi_cacheReduce, and a round of it.
ReduceStep ==
    /\ last.op = "ubi_cacheReduce"
    /\ IF last.arg # 0
       THEN Round(ubi_cacheReduce([Cache EXCEPT !.log = log], 1),
                  last.arg - 1)
       ELSE Return(ubi_trTRUE)

LoopNext ==
    \/ \E n \in Nodes, k \in Keys, EntrySize \in 1..MaxSize :
          LoopPut(n, k, EntrySize)
    \/ \E NewSize \in 0..MaxLimit : LoopSetMaxEntries(NewSize)
    \/ \E NewSize \in 0..MaxLimit : LoopSetMaxMemory(NewSize)
    \/ \E cnt \in 0..MaxNodes : LoopReduce(cnt)
    \/ TrimStep
    \/ ReduceStep

\* A call that is in a loop goes on to the next test of the loop, or
\* returns: the control of the call, as last has it, moves on.
Advance ==
    /\ last.op \in Loops
    /\ \E op \in {last.op, "return"}, ret \in {last.ret, ubi_trTRUE, ubi_trFALSE},
          left \in {last.arg, last.arg - 1} :
          last' = [last EXCEPT !.op = op, !.ret = ret, !.arg = left,
                               !.rounds = @ + 1]

LoopSpec ==
    /\ CacheInit
    /\ [][LoopNext]_vars
    /\ WF_last(Advance)

\* ------------------------------------------------------------------------
\* The eviction specification: the calls of the loop specification and
\* ubi_cacheGet, the loops again one round a step.  last.node keeps the
\* entry that the last ubi_cachePut inserted or the last ubi_cacheGet
\* found, for as long as no entry has been thrown out since (NULL
\* otherwise).

\* The entry touched last, if no round has thrown out an entry since.
Touched == IF count = last.cnt0 THEN last.node ELSE NULL

TouchPut(n, k, EntrySize) ==
    /\ last.op \notin Loops
    /\ own[n] # "in"
    /\ SetCache(PutHeld(Sized([Cache EXCEPT !.t.key[n] = k], EntrySize, n), n,
                        ubi_sptInsert([Tree EXCEPT !.key[n] = k], n, k)))
    /\ last' = [Testing("cachetrim", 0, 0) EXCEPT !.node = n]

\* The counters are cut off at MaxTrys lookups.
TouchGet(k) ==
    /\ last.op \notin Loops
    /\ cache_trys < MaxTrys
    /\ SetCache(ubi_cacheGet(Cache, k).c)
    /\ last' = [Testing("return", 0, ubi_cacheGet(Cache, k).p)
                   EXCEPT !.node = ubi_cacheGet(Cache, k).p, !.key = k]

TouchSetMaxEntries(NewSize) ==
    /\ LoopSetMaxEntries(NewSize)!1
    /\ LoopSetMaxEntries(NewSize)!2
    /\ last' = [Testing(IF NewSize < max_entries
                           \/ (NewSize # 0 /\ max_entries = 0)
                        THEN "cachetrim" ELSE "return", 0, max_entries)
                   EXCEPT !.node = Touched]

TouchSetMaxMemory(NewSize) ==
    /\ LoopSetMaxMemory(NewSize)!1
    /\ LoopSetMaxMemory(NewSize)!2
    /\ last' = [Testing(IF NewSize < max_memory
                           \/ (NewSize # 0 /\ max_memory = 0)
                        THEN "cachetrim" ELSE "return", 0, max_memory)
                   EXCEPT !.node = Touched]

TouchReduce(cnt) ==
    /\ last.op \notin Loops
    /\ SetCache(Cache)
    /\ last' = [Testing("ubi_cacheReduce", cnt, 0) EXCEPT !.node = Touched]

TouchNext ==
    \/ \E n \in Nodes, k \in Keys, EntrySize \in 1..MaxSize :
          TouchPut(n, k, EntrySize)
    \/ \E k \in Keys : TouchGet(k)
    \/ \E NewSize \in 0..MaxLimit : TouchSetMaxEntries(NewSize)
    \/ \E NewSize \in 0..MaxLimit : TouchSetMaxMemory(NewSize)
    \/ \E cnt \in 0..MaxNodes : TouchReduce(cnt)
    \/ TrimStep
    \/ ReduceStep

TouchSpec == CacheInit /\ [][TouchNext]_vars

\* ------------------------------------------------------------------------
\* The pair specification: two trees made with the same flags, of the same
\* nodes; every Insert and Remove is made with ubi_sptInsert and
\* ubi_sptRemove on the first and with ubi_btInsert and ubi_btRemove on the
\* second (the ubi_tr macros of ubi_SplayTree.h and of ubi_BinTree.h).
\* The caller goes by what the splay calls tell it; last.bt keeps what the
\* base calls returned.

PairInit ==
    /\ \E Flags \in 0..3 : /\ TreeIs(ubi_btInitTree(Blank, Flags))
                          /\ btTree = ubi_btInitTree(Blank, Flags)
    /\ own = InitOwn
    /\ entry_size = [n \in Nodes |-> 0]
    /\ mem_used = 0
    /\ max_entries = 0
    /\ max_memory = 0
    /\ cache_hits = 0
    /\ cache_trys = 0
    /\ log = <<>>
    /\ last = NoCall
    /\ slList = NoList

\* What the caller has after the two insertions returned r (splay) and b
\* (base).
PairInserted(n, k, r, b) ==
    /\ SetTree(r.t, OwnAfterInsert(r, n))
    /\ btTree' = Released(b.t, OwnAfterInsert(b, n))
    /\ last' = [op |-> "trInsert", node |-> n, key |-> k, ret |-> r.ret,
                old |-> r.OldNode,
                bt |-> [ret |-> b.ret, old |-> b.OldNode]]

PairInsert(n, k) ==
    /\ own[n] # "in"
    /\ PairInserted(n, k, ubi_sptInsert([Tree EXCEPT !.key[n] = k], n, k),
                    ubi_btInsert([btTree EXCEPT !.key[n] = k], n, k))
    /\ log' = <<>>
    /\ UNCHANGED <<cacheVars, slList>>

PairRemove(n) ==
    /\ own[n] = "in"
    /\ SetTree(ubi_sptRemove(Tree, n), [own EXCEPT ![n] = "out"])
    /\ btTree' = Released(ubi_btRemove(btTree, n), [own EXCEPT ![n] = "out"])
    /\ last' = [op |-> "trRemove", node |-> n, key |-> 0, ret |-> n,
                old |-> NULL, bt |-> [ret |-> n, old |-> NULL]]
    /\ log' = <<>>
    /\ UNCHANGED <<cacheVars, slList>>

PairNext ==
    \/ \E n \in Nodes, k \in Keys : PairInsert(n, k)
    \/ \E n \in Nodes : PairRemove(n)

PairSpec == PairInit /\ [][PairNext]_vars

\* ------------------------------------------------------------------------
\* The round-trip specification: MaxNodes nodes are inserted into an empty
\* tree (base or splay calls, any flags, any keys; a rejected insertion is
\* made again), and once all are in the tree they are removed in any order.

Inserting == last.op \in {"init", "btInsert", "sptInsert"}

AllIn == \A n \in Nodes : own[n] = "in"

RoundTripNext ==
    \/ \E n \in Nodes, k \in Keys : Inserting /\ BtInsert(n, k)
    \/ \E n \in Nodes, k \in Keys : Inserting /\ SptInsert(n, k)
    \/ \E n \in Nodes : (AllIn \/ ~Inserting) /\ BtRemove(n)
    \/ \E n \in Nodes : (AllIn \/ ~Inserting) /\ SptRemove(n)

RoundTripSpec == Init /\ [][RoundTripNext]_vars

\* ------------------------------------------------------------------------
\* The overwrite specification: a tree with ubi_trOVERWRITE set (the mode
\* of the cache), the base Insert and Remove on it.

OverwriteInit == Init /\ flags = ubi_trOVERWRITE

OverwriteNext ==
    \/ \E n \in Nodes, k \in Keys : BtInsert(n, k)
    \/ \E n \in Nodes : BtRemove(n)

OverwriteSpec == OverwriteInit /\ [][OverwriteNext]_vars

\* ------------------------------------------------------------------------
\* The query specification: one tree, built and reshaped by the calls of
\* the tree specification, and the calls that look things up in it:
\* ubi_btLocate, ubi_btFirstOf, ubi_btLastOf, ubi_btLeafNode, ubi_btTraverse
\* and ubi_btKillTree.

\* What the caller has after a call that returned p and left the tree alone.
QueryDone(op, n, k, arg, p) ==
    /\ last' = Call(op, n, k, arg, p, NULL)
    /\ log' = <<>>
    /\ UNCHANGED <<Link, gender, balance, key, root, count, flags, own>>
    /\ UNCHANGED <<cacheVars, btTree, slList>>

BtLocate(k, CompOp) ==
    QueryDone("btLocate", NULL, k, CompOp, ubi_btLocate(Tree, k, CompOp))

\* p is a node of the tree.
BtFirstOf(p, k) ==
    /\ own[p] = "in"
    /\ QueryDone("btFirstOf", p, k, 0, ubi_btFirstOf(Tree, k, p))

BtLastOf(p, k) ==
    /\ own[p] = "in"
    /\ QueryDone("btLastOf", p, k, 0, ubi_btLastOf(Tree, k, p))

\* leader is a node of the tree, or NULL.
BtLeafNode(leader) ==
    /\ leader # NULL => own[leader] = "in"
    /\ QueryDone("btLeafNode", leader, 0, 0, ubi_btLeafNode(Tree, leader))

\* What the caller has after ubi_btTraverse returned r; last.arg says
\* whether the visitor removes with the splay Remove.
TraverseDone(splay, r) ==
    /\ SetTree(r.t, r.own)
    /\ log' = r.log
    /\ last' = Call("btTraverse", NULL, 0, IF splay THEN 1 ELSE 0, r.count,
                    NULL)

BtTraverse(doomed, splay) ==
    /\ TraverseDone(splay,
                    ubi_btTraverse(Tree, [doomed |-> doomed, splay |-> splay],
                                   own))
    /\ UNCHANGED <<cacheVars, btTree, slList>>

\* last.node is RootPtr here (NULL, or 1 for the tree) and last.kids the
\* number of children the root of the tree had.
KilledAt(RootPtr, FreeNode, k) ==
    /\ SetTree(k.t, k.own)
    /\ log' = k.log
    /\ last' = [NoCall EXCEPT !.op = "ubi_btKillTree", !.node = RootPtr,
                              !.arg = FreeNode, !.ret = k.count,
                              !.cnt0 = count,
                              !.kids = IF root # NULL THEN Kids(root) ELSE 0]

BtKillTree(RootPtr, FreeNode) ==
    /\ KilledAt(RootPtr, FreeNode, KillTreeAt(RootPtr, Tree, FreeNode, own))
    /\ UNCHANGED <<cacheVars, btTree, slList>>

QueryNext ==
    \/ \E n \in Nodes, k \in Keys : BtInsert(n, k)
    \/ \E n \in Nodes, k \in Keys : SptInsert(n, k)
    \/ \E n \in Nodes : BtRemove(n)
    \/ \E n \in Nodes : SptRemove(n)
    \/ \E n \in Nodes : SptSplay(n)
    \/ \E k \in Keys, CompOp \in ubi_trLT..ubi_trGT : BtLocate(k, CompOp)
    \/ \E p \in Nodes, k \in Keys : BtFirstOf(p, k)
    \/ \E p \in Nodes, k \in Keys : BtLastOf(p, k)
    \/ \E leader \in Nodes \cup {NULL} : BtLeafNode(leader)
    \/ \E doomed \in SUBSET Nodes, splay \in BOOLEAN :
          BtTraverse(doomed, splay)
    \/ \E RootPtr \in {NULL, 1}, FreeNode \in {NULL, 1} :
          BtKillTree(RootPtr, FreeNode)

QuerySpec == Init /\ [][QueryNext]_vars

\* ------------------------------------------------------------------------
\* What the properties below speak of.

Members == {n \in Nodes : own[n] = "in"}

Children(t, S) ==
    {t.Link[n][w] : n \in S, w \in {ubi_trLEFT, ubi_trRIGHT}} \ {NULL}

RECURSIVE Closure(_, _, _)
Closure(t, S, i) ==
    IF i = 0 THEN S ELSE Closure(t, S \cup Children(t, S), i - 1)

\* The nodes reachable from root.root through the child links.
Reach(t) == IF t.root = NULL THEN {} ELSE Closure(t, {t.root}, MaxNodes)

\* First of root, then Next again and again (at most MaxNodes + 1 nodes).
RECURSIVE Walk(_, _, _)
Walk(t, p, fuel) ==
    IF p = NULL \/ fuel = 0 THEN <<>>
    ELSE <<p>> \o Walk(t, ubi_btNext(t, p), fuel - 1)

InOrder(t) == Walk(t, ubi_btFirst(t, t.root), MaxNodes + 1)

Without(s, d) == SelectSeq(s, LAMBDA x : x # d)

RECURSIVE SumSize(_, _)
SumSize(f, S) ==
    IF S = {} THEN 0
    ELSE LET n == CHOOSE x \in S : TRUE IN f[n] + SumSize(f, S \ {n})

\* The nodes of the traversal with a key below, equal to and above k, in
\* the order of the traversal; the first and the last node of a sequence
\* (NULL when there is none).
Below(k) == SelectSeq(InOrder(Tree), LAMBDA n : key[n] < k)
Same(k) == SelectSeq(InOrder(Tree), LAMBDA n : key[n] = k)
Above(k) == SelectSeq(InOrder(Tree), LAMBDA n : key[n] > k)
HeadOf(s) == IF s = <<>> THEN NULL ELSE s[1]
EndOf(s) == IF s = <<>> THEN NULL ELSE s[Len(s)]

\* The nodes of s, freed in that order by ubi_btKillTree from the tree t,
\* from the i-th on: each has no child left when it is unhooked and freed.
RECURSIVE Bare(_, _, _)
Bare(t, s, i) ==
    IF i > Len(s) THEN TRUE
    ELSE /\ Unhook(t, s[i]).Link[s[i]][ubi_trLEFT] = NULL
         /\ Unhook(t, s[i]).Link[s[i]][ubi_trRIGHT] = NULL
         /\ Bare(Unhook(t, s[i]), s, i + 1)

\* The sum of the sizes sz of the nodes of the calls s[i], s[i+1], ...
RECURSIVE FreedSize(_, _, _)
FreedSize(sz, s, i) ==
    IF i > Len(s) THEN 0 ELSE sz[s[i].node] + FreedSize(sz, s, i + 1)

\* The nodes of the calls of the free function in s.
Freed(s) == {s[i].node : i \in 1..Len(s)}

\* The call changed nothing in the tree and freed nothing.
TreeKept ==
    /\ Link' = Link /\ gender' = gender /\ balance' = balance
    /\ key' = key /\ root' = root /\ count' = count /\ flags' = flags
    /\ own' = own /\ log' = <<>>

\* The nodes of the subtree of t under p (none when p is NULL), and the
\* nodes of the sequence s after d.
Under(t, p) == IF p = NULL THEN {} ELSE Closure(t, {p}, MaxNodes)

Following(s, d) ==
    {s[i] : i \in {j \in 1..Len(s) : \E h \in 1..(j - 1) : s[h] = d}}

Inserts == {"btInsert", "sptInsert"}
Removes == {"btRemove", "sptRemove"}

\* ------------------------------------------------------------------------
\* The splay specification: the loop of Splay, one round a step, on trees
\* of any shape (the base Insert and Remove make them).  last.op is "Splay"
\* while ubi_sptSplay is at the test of the loop of Splay and "sptSplay"
\* once it has stored the root and returned; last.node is SplayMe,
\* last.arg the number of nodes above it at the call, last.seq the
\* traversal at the call and last.rounds the number of tests made.  While
\* the call is in the loop root.root is still the root of before the call.

StepInsert(n, k) ==
    /\ last.op # "Splay"
    /\ BtInsert(n, k)

StepRemove(n) ==
    /\ last.op # "Splay"
    /\ BtRemove(n)

\* The number of nodes above p.
RECURSIVE Depth(_, _)
Depth(t, p) ==
    IF t.Link[p][ubi_trPARENT] = NULL THEN 0
    ELSE 1 + Depth(t, t.Link[p][ubi_trPARENT])

\* The node above all the others, from p upward, and the traversal of the
\* tree under it.
RECURSIVE TopOf(_, _)
TopOf(t, p) ==
    IF t.Link[p][ubi_trPARENT] = NULL THEN p
    ELSE TopOf(t, t.Link[p][ubi_trPARENT])

InOrderAbout(t, p) == Walk(t, ubi_btFirst(t, TopOf(t, p)), MaxNodes + 1)

\* ubi_sptSplay( RootPtr, SplayMe ) has called Splay( SplayMe ).
SplayCall(SplayMe) ==
    /\ last.op # "Splay"
    /\ own[SplayMe] = "in"
    /\ SetTree(Tree, own)
    /\ last' = [op |-> "Splay", node |-> SplayMe, key |-> 0,
                arg |-> Depth(Tree, SplayMe), ret |-> 0, old |-> NULL,
                cnt0 |-> count, kids |-> Kids(SplayMe), rounds |-> 0,
                seq |-> InOrder(Tree)]
    /\ log' = <<>>
    /\ UNCHANGED <<cacheVars, btTree, slList>>

\* A round of the loop of Splay.
SplayStep ==
    /\ last.op = "Splay"
    /\ Link[last.node][ubi_trPARENT] # NULL
    /\ SetTree(Rotate(ZigZigZag(Tree, last.node,
                                Link[last.node][ubi_trPARENT]),
                      last.node), own)
    /\ last' = [last EXCEPT !.rounds = @ + 1]
    /\ log' = <<>>
    /\ UNCHANGED <<cacheVars, btTree, slList>>

\* The loop ends, Splay returns SplayWithMe and ubi_sptSplay stores it.
SplayReturn ==
    /\ last.op = "Splay"
    /\ Link[last.node][ubi_trPARENT] = NULL
    /\ SetTree([Tree EXCEPT !.root = last.node], own)
    /\ last' = [last EXCEPT !.op = "sptSplay", !.rounds = @ + 1]
    /\ log' = <<>>
    /\ UNCHANGED <<cacheVars, btTree, slList>>

SplayNext ==
    \/ \E n \in Nodes, k \in Keys : StepInsert(n, k)
    \/ \E n \in Nodes : StepRemove(n)
    \/ \E n \in Nodes : SplayCall(n)
    \/ SplayStep
    \/ SplayReturn

\* A call that is in the loop of Splay goes on to the next test or
\* returns: the control of the call, as last has it, moves on.
SplayAdvance ==
    /\ last.op = "Splay"
    /\ \E op \in {"Splay", "sptSplay"} :
          last' = [last EXCEPT !.op = op, !.rounds = @ + 1]

SplaySpec ==
    /\ Init
    /\ [][SplayNext]_vars
    /\ WF_last(SplayAdvance)

\* ------------------------------------------------------------------------
\* The duplicate-key specification: one tree made with ubi_trDUPKEY, the
\* base and the splay Insert and Remove and the splaying calls on it.
\* last.order keeps the nodes of the tree in the order in which they were
\* inserted.

DupInit ==
    /\ \E Flags \in {ubi_trDUPKEY, ubi_trDUPKEY + ubi_trOVERWRITE} :
          TreeIs(ubi_btInitTree(Blank, Flags))
    /\ own = InitOwn
    /\ entry_size = [n \in Nodes |-> 0]
    /\ mem_used = 0
    /\ max_entries = 0
    /\ max_memory = 0
    /\ cache_hits = 0
    /\ cache_trys = 0
    /\ log = <<>>
    /\ last = NoCall @@ [order |-> <<>>]
    /\ btTree = Blank
    /\ slList = NoList

\* What the caller has after a call on the tree that left the tree t and
\* the nodes o.
DupDone(t, o, c, order) ==
    /\ SetTree(t, o)
    /\ last' = c @@ [order |-> order]
    /\ log' = <<>>
    /\ UNCHANGED <<cacheVars, btTree, slList>>

DupInserted(op, n, k, r) ==
    DupDone(r.t, OwnAfterInsert(r, n), Call(op, n, k, 0, r.ret, r.OldNode),
            IF r.ret # ubi_trFALSE
            THEN Append(Without(last.order, r.OldNode), n)
            ELSE last.order)

DupInsert(n, k) ==
    /\ own[n] # "in"
    /\ \/ DupInserted("btInsert", n, k,
                      ubi_btInsert([Tree EXCEPT !.key[n] = k], n, k))
       \/ DupInserted("sptInsert", n, k,
                      ubi_sptInsert([Tree EXCEPT !.key[n] = k], n, k))

DupRemove(n) ==
    /\ own[n] = "in"
    /\ \/ DupDone(ubi_btRemove(Tree, n), [own EXCEPT ![n] = "out"],
                  Call("btRemove", n, 0, 0, n, NULL), Without(last.order, n))
       \/ DupDone(ubi_sptRemove(Tree, n), [own EXCEPT ![n] = "out"],
                  Call("sptRemove", n, 0, 0, n, NULL), Without(last.order, n))

DupFind(k) ==
    DupDone(ubi_sptFind(Tree, k).t, own,
            Call("sptFind", NULL, k, 0, ubi_sptFind(Tree, k).p, NULL),
            last.order)

DupSplay(n) ==
    /\ own[n] = "in"
    /\ DupDone(ubi_sptSplay(Tree, n), own,
               Call("sptSplay", n, 0, 0, 0, NULL), last.order)

DupNext ==
    \/ \E n \in Nodes, k \in Keys : DupInsert(n, k)
    \/ \E n \in Nodes : DupRemove(n)
    \/ \E k \in Keys : DupFind(k)
    \/ \E n \in Nodes : DupSplay(n)

DupSpec == DupInit /\ [][DupNext]_vars

\* ------------------------------------------------------------------------
\* The two users of a tree header: a program that makes the calls of
\* ubi_BinTree.c and ubi_SplayTree.c on a tree it has initialized itself,
\* or ubi_Cache.c on the tree of a cache (ubi_cacheInit has initialized it
\* with ubi_trOVERWRITE), never both on one tree.

CacheOps ==
    {"cachePut", "cacheGet", "cacheDelete", "cacheReduce",
     "cacheSetMaxEntries", "cacheSetMaxMemory", "cacheClear"}

UserInit == Init \/ CacheInit

TreeUser ==
    /\ last.op \notin CacheOps
    /\ max_entries = 0 /\ max_memory = 0
    /\ Next

CacheUser ==
    /\ last.op \in CacheOps \cup {"init"}
    /\ flags = ubi_trOVERWRITE
    /\ CacheNext

UserNext == TreeUser \/ CacheUser

UserSpec == UserInit /\ [][UserNext]_vars

\* ------------------------------------------------------------------------
\* The list specification: one list, the calls of ubi_sLinkList.c and the
\* macros of ubi_sLinkList.h on it, given NULL or a node of the list as
\* After and AfterMe and a node that is not in the list as New.  own tells
\* which nodes are in the list, last.cnt0 keeps the count of before the
\* call; the tree is not used.

\* The Next field of a node that is not in the list is the caller's:
\* ubi_slInsert writes it before it reads it.
Unlisted(l, o) ==
    [l EXCEPT !.Next = [n \in Nodes |-> IF o[n] # "in" THEN NULL
                                        ELSE l.Next[n]]]

ListInit ==
    /\ TreeIs(Blank)
    /\ own = InitOwn
    /\ entry_size = [n \in Nodes |-> 0]
    /\ mem_used = 0
    /\ max_entries = 0
    /\ max_memory = 0
    /\ cache_hits = 0
    /\ cache_trys = 0
    /\ log = <<>>
    /\ last = NoCall
    /\ btTree = Blank
    /\ slList = ubi_slInitList(NoList)

\* What the caller has after a call on the list that left the list l and
\* returned ret.
ListDone(op, N, After, l, o, ret) ==
    /\ slList' = Unlisted(l, o)
    /\ own' = o
    /\ last' = [NoCall EXCEPT !.op = op, !.node = N, !.arg = After,
                              !.ret = ret, !.cnt0 = slList.count]
    /\ UNCHANGED <<Link, gender, balance, key, root, count, flags,
                   cacheVars, log, btTree>>

SlInsert(New, After) ==
    /\ own[New] # "in"
    /\ After \in Members \cup {NULL}
    /\ ListDone("slInsert", New, After, ubi_slInsert(slList, New, After),
                [own EXCEPT ![New] = "in"], New)

SlAddTail(New) ==
    /\ own[New] # "in"
    /\ ListDone("slAddTail", New, slList.Tail, ubi_slAddTail(slList, New),
                [own EXCEPT ![New] = "in"], New)

\* What the caller has after ubi_slRemoveNext returned r.
ListRemoved(op, AfterMe, r) ==
    ListDone(op, NULL, AfterMe, r.l,
             [n \in Nodes |-> IF n = r.DelNode THEN "out" ELSE own[n]],
             r.DelNode)

SlRemoveNext(AfterMe) ==
    /\ AfterMe \in Members \cup {NULL}
    /\ ListRemoved("slRemoveNext", AfterMe, ubi_slRemoveNext(slList, AfterMe))

SlRemHead == ListRemoved("slRemHead", NULL, ubi_slRemHead(slList))

SlLast == ListDone("slLast", NULL, NULL, slList, own, ubi_slLast(slList))

SlInitList ==
    ListDone("slInitList", NULL, NULL, ubi_slInitList(slList), InitOwn,
             ListPtr)

ListNext ==
    \/ \E New \in Nodes, After \in Nodes \cup {NULL} : SlInsert(New, After)
    \/ \E New \in Nodes : SlAddTail(New)
    \/ \E AfterMe \in Nodes \cup {NULL} : SlRemoveNext(AfterMe)
    \/ SlRemHead
    \/ SlLast
    \/ SlInitList

ListSpec == ListInit /\ [][ListNext]_vars

\* The nodes from p on through Next (at most fuel of them), as printlist
\* of sll-test.c goes through them.
RECURSIVE Chain(_, _, _)
Chain(l, p, fuel) ==
    IF p = NULL \/ fuel = 0 THEN <<>>
    ELSE <<p>> \o Chain(l, ubi_slNext(l, p), fuel - 1)

Listed(l) == Chain(l, ubi_slFirst(l), MaxNodes + 1)

\* ------------------------------------------------------------------------
\* The leaf specification: the loop of ubi_btLeafNode, one round a step,
\* on the trees of up to MaxLevels levels.  The tree is btTree, here a
\* tree of the nodes LeafNodes: node n has the key that puts it, once the
\* node n \div 2 is in the tree, under that node, on the left when n is
\* even; the base Insert makes every tree of up to MaxLevels levels that
\* way.  last keeps the locals of ubi_btLeafNode at the test of its
\* "while": the arrays p (its first paths elements) and q (the elements
\* copied from p in the last round) and whichway, and the value of j after
\* the first of the two filling loops (filled).

LeafNodes == 1..(2^MaxLevels - 1)

RECURSIVE Level(_)
Level(n) == IF n = 1 THEN 0 ELSE 1 + Level(n \div 2)

RECURSIVE HeapKey(_)
HeapKey(n) ==
    IF n = 1 THEN 2^(MaxLevels - 1)
    ELSE IF n % 2 = 0
    THEN HeapKey(n \div 2) - 2^(MaxLevels - 1 - Level(n))
    ELSE HeapKey(n \div 2) + 2^(MaxLevels - 1 - Level(n))

LeafBlank ==
    [Link |-> [n \in LeafNodes |-> NoLinks],
     gender |-> [n \in LeafNodes |-> ubi_trEQUAL],
     balance |-> [n \in LeafNodes |-> ubi_trEQUAL],
     key |-> [n \in LeafNodes |-> HeapKey(n)],
     root |-> NULL, count |-> 0, flags |-> 0]

InLeafTree(n) ==
    /\ n \in LeafNodes
    /\ btTree.root = n \/ btTree.Link[n][ubi_trPARENT] # NULL

LeafCalled(op, leader, ret, p, q, whichway, filled) ==
    [op |-> op, node |-> leader, ret |-> ret, p |-> p, q |-> q,
     whichway |-> whichway, filled |-> filled]

LeafInit ==
    /\ TreeIs(Blank)
    /\ own = InitOwn
    /\ entry_size = [n \in Nodes |-> 0]
    /\ mem_used = 0
    /\ max_entries = 0
    /\ max_memory = 0
    /\ cache_hits = 0
    /\ cache_trys = 0
    /\ log = <<>>
    /\ last = LeafCalled("init", NULL, NULL, <<>>, <<>>, ubi_trLEFT, 0)
    /\ btTree = ubi_btInitTree(LeafBlank, 0)
    /\ slList = NoList

LeafInsert(n) ==
    /\ last.op # "ubi_btLeafNode"
    /\ ~InLeafTree(n)
    /\ n = 1 \/ InLeafTree(n \div 2)
    /\ btTree' = ubi_btInsert(btTree, n, HeapKey(n)).t
    /\ last' = LeafCalled("btInsert", n, ubi_trTRUE, <<>>, <<>>,
                          ubi_trLEFT, 0)
    /\ UNCHANGED <<Link, gender, balance, key, root, count, flags,
                   cacheVars, own, log, slList>>

\* ubi_btLeafNode( leader ) up to the first test of the loop; leader is
\* NULL or a node of the tree.
LeafCall(leader) ==
    /\ last.op # "ubi_btLeafNode"
    /\ leader = NULL \/ InLeafTree(leader)
    /\ last' = IF leader = NULL
               THEN LeafCalled("btLeafNode", NULL, NULL, <<>>, <<>>,
                               ubi_trLEFT, 0)
               ELSE LeafCalled("ubi_btLeafNode", leader, NULL, <<leader>>,
                               <<>>, ubi_trLEFT, 0)
    /\ UNCHANGED <<Link, gender, balance, key, root, count, flags,
                   cacheVars, own, log, btTree, slList>>

\* What a round of the loop leaves, p1 being p[] after the first filling
\* loop and p2 after the second.
LeafFilled(p1, p2) ==
    last' = [last EXCEPT !.q = last.p, !.p = p2,
                         !.whichway = ubi_trRevWay(@),
                         !.filled = Len(p1)]

LeafRound ==
    /\ last.op = "ubi_btLeafNode"
    /\ Len(last.p) > 0
    /\ LeafFilled(LeafFill(btTree, last.p, last.whichway, 1, <<>>, FALSE),
                  LeafFill(btTree, last.p, ubi_trRevWay(last.whichway), 1,
                           LeafFill(btTree, last.p, last.whichway, 1, <<>>,
                                    FALSE),
                           TRUE))
    /\ UNCHANGED <<Link, gender, balance, key, root, count, flags,
                   cacheVars, own, log, btTree, slList>>

\* "return( q[0] )".
LeafReturn ==
    /\ last.op = "ubi_btLeafNode"
    /\ Len(last.p) = 0
    /\ last' = [last EXCEPT !.op = "btLeafNode", !.ret = last.q[1]]
    /\ UNCHANGED <<Link, gender, balance, key, root, count, flags,
                   cacheVars, own, log, btTree, slList>>

LeafNext ==
    \/ \E n \in LeafNodes : LeafInsert(n)
    \/ \E leader \in LeafNodes \cup {NULL} : LeafCall(leader)
    \/ LeafRound
    \/ LeafReturn

LeafSpec == LeafInit /\ [][LeafNext]_vars

\* The children of the nodes of the sequence s, all of them.
RECURSIVE ChildrenOf(_, _)
ChildrenOf(t, s) ==
    IF s = <<>> THEN {}
    ELSE ({t.Link[s[1]][ubi_trLEFT], t.Link[s[1]][ubi_trRIGHT]} \ {NULL})
            \cup ChildrenOf(t, Tail(s))

\* ------------------------------------------------------------------------
\* C1: after any sequence of calls the in-order traversal (First of the
\* root, then Next) visits keys in non-decreasing order.
C1_Ordered ==
    LET s == InOrder(Tree)
    IN  \A i \in 1..(Len(s) - 1) : key[s[i]] <= key[s[i + 1]]

\* A splay insertion has left a tree of three nodes with different keys at
\* its ends.
C1_Witness ==
    LET s == InOrder(Tree)
    IN  /\ last.op = "sptInsert"
        /\ Len(s) >= 3
        /\ key[s[1]] < key[s[Len(s)]]

\* C2: count is the number of nodes reachable from the root; an insertion
\* of a new or duplicate key adds one, an overwriting or rejected insertion
\* adds nothing, a removal takes one away.
C2_Count ==
    /\ count = Cardinality(Reach(Tree))
    /\ last.op \in Inserts /\ last.ret # ubi_trFALSE /\ last.old = NULL
          => count = last.cnt0 + 1
    /\ last.op \in Inserts /\ last.ret # ubi_trFALSE /\ last.old # NULL
          => count = last.cnt0
    /\ last.op \in Inserts /\ last.ret = ubi_trFALSE => count = last.cnt0
    /\ last.op \in Removes => count = last.cnt0 - 1

\* A node with two children has been removed from a tree of three.
C2_Witness ==
    /\ last.op \in Removes
    /\ last.kids = 2
    /\ count = 2

\* C3: every node of the tree but the root is the child of its parent that
\* its gender says, the root has no parent and gender PARENT.
C3_ParentLinks ==
    \A n \in Reach(Tree) :
        IF n = root
        THEN Link[n][ubi_trPARENT] = NULL /\ gender[n] = ubi_trPARENT
        ELSE /\ gender[n] \in {ubi_trLEFT, ubi_trRIGHT}
             /\ Link[n][ubi_trPARENT] # NULL
             /\ Link[Link[n][ubi_trPARENT]][gender[n]] = n

\* A splay call has left a root with a grandchild.
C3_Witness ==
    /\ last.op \in {"sptFind", "sptLocate", "sptSplay", "sptRemove"}
    /\ \E n \in Reach(Tree) :
          /\ Link[n][ubi_trPARENT] # NULL
          /\ Link[Link[n][ubi_trPARENT]][ubi_trPARENT] = root

\* C4: after a Put or a change of a limit the cache is within its limits:
\* a limit of zero is no limit, and a cache with no entry left is within
\* any limit.
C4_Budget ==
    last.op \in {"cachePut", "cacheSetMaxEntries", "cacheSetMaxMemory"} =>
        /\ max_entries = 0 \/ count <= max_entries \/ count = 0
        /\ max_memory = 0 \/ mem_used <= max_memory \/ count = 0

\* A Put had to throw an entry out and has filled the cache to both limits.
C4_Witness ==
    /\ last.op = "cachePut"
    /\ log # <<>>
    /\ max_entries # 0 /\ count = max_entries
    /\ max_memory # 0 /\ mem_used = max_memory

\* C5: mem_used is the sum of the sizes of the entries in the splay tree.
C5_MemUsed == mem_used = SumSize(entry_size, Reach(Tree))

\* Entries of different sizes are in the cache after one was freed.
C5_Witness ==
    /\ log # <<>>
    /\ \E n, m \in Reach(Tree) : entry_size[n] < entry_size[m]

\* C6: the free function is called on a node only when neither the root nor
\* a node of the tree points to it any more, and once only.  ubi_btKillTree
\* does not keep to it: the last node is freed while root.root points to it.
C6_FreeUnlinked ==
    \A i \in DOMAIN log : ~log[i].linked /\ ~log[i].again

\* C7: a splay Find or Locate leaves the node it returns at the root, a
\* splay Insert the new node, or the node with the key when it refuses.
C7_SplayToRoot ==
    /\ last.op \in {"sptFind", "sptLocate"} /\ last.ret # NULL
          => root = last.ret
    /\ last.op = "sptInsert" /\ last.ret # ubi_trFALSE => root = last.node
    /\ last.op = "sptInsert" /\ last.ret = ubi_trFALSE => root = last.old

\* A Find has brought a node with a left and a right child to the root.
C7_Witness ==
    /\ last.op = "sptFind"
    /\ last.ret # NULL
    /\ Kids(last.ret) = 2

\* C8: when all the nodes inserted have been removed, in any order, the
\* tree is empty: count is 0 and root.root is NULL.
C8_RoundTrip ==
    ~Inserting /\ Members = {} => count = 0 /\ root = NULL

\* The last of the MaxNodes nodes has been removed by the splay Remove.
C8_Witness ==
    /\ last.op = "sptRemove"
    /\ Members = {}
    /\ last.cnt0 = 1

\* C9: Remove returns the node it was given, the traversal is the one
\* before without that node, and nothing in the tree points to the node.
C9_RemoveOne ==
    [][last'.op \in Removes =>
          LET d == last'.node
          IN  /\ last'.ret = d
              /\ InOrder(Tree)' = Without(InOrder(Tree), d)
              /\ ~Referenced(Tree', d, own')
              /\ LET s == ubi_btNext(Tree, d)
                 IN  s # NULL => s \in Reach(Tree)']_vars

\* The base Remove has taken a node with two children out of the tree.
C9_Witness ==
    /\ last.op = "btRemove"
    /\ last.kids = 2
    /\ Len(InOrder(Tree)) = last.cnt0 - 1

\* C10: the base Insert of a key that is in a tree with neither flag set
\* returns FALSE, gives the node with that key as *OldNode and leaves the
\* tree as it was, without the new node.
C10_Rejected ==
    [][last'.op = "btInsert" /\ flags = 0
         /\ (\E m \in Members : key[m] = last'.key) =>
          /\ last'.ret = ubi_trFALSE
          /\ last'.old \in Members /\ key[last'.old] = last'.key
          /\ root' = root /\ count' = count /\ flags' = flags
          /\ \A m \in Members :
                /\ Link'[m] = Link[m]
                /\ gender'[m] = gender[m]
                /\ key'[m] = key[m]
          /\ InOrder(Tree)' = InOrder(Tree)
          /\ last'.node \notin Reach(Tree)']_vars

\* The base Insert has refused a key that is in a tree of two nodes.
C10_Witness ==
    /\ last.op = "btInsert"
    /\ last.ret = ubi_trFALSE
    /\ last.old # NULL
    /\ count >= 2

C13_LocateLE ==
    last.op = "btLocate" /\ last.arg = ubi_trLE /\ ubi_trDups_OK(Tree)
        /\ Len(Same(last.key)) >= 2
    => last.ret = HeadOf(Same(last.key))

\* C13 as it is written: Locate(K, LE) returns the last node of the
\* traversal among the nodes with the key K.
C13_LocateLE_Last ==
    last.op = "btLocate" /\ last.arg = ubi_trLE /\ ubi_trDups_OK(Tree)
        /\ Len(Same(last.key)) >= 2
    => last.ret = EndOf(Same(last.key))

\* Locate(K, LE) has returned the first of three nodes with the key K,
\* which is not the root.
C13_Witness ==
    /\ last.op = "btLocate"
    /\ last.arg = ubi_trLE
    /\ ubi_trDups_OK(Tree)
    /\ Len(Same(last.key)) = 3
    /\ last.ret = HeadOf(Same(last.key))
    /\ last.ret # root

\* C14: for any tree and key K, Locate(K, EQ) returns the first node of
\* the traversal with the key K, NULL when there is none, and Locate(K, GE)
\* returns that first node when there is one; in every shape base and splay
\* Insert and Remove give to a tree with ubi_trDUPKEY set.
C14_LocateEQ ==
    last.op = "btLocate" =>
        /\ last.arg = ubi_trEQ => last.ret = HeadOf(Same(last.key))
        /\ last.arg = ubi_trGE /\ Same(last.key) # <<>>
              => last.ret = HeadOf(Same(last.key))

\* Locate(K, EQ) has returned the first of several nodes with the key K
\* in a tree whose root has the key K and is not the first of them.
C14_Witness ==
    /\ last.op = "btLocate"
    /\ last.arg = ubi_trEQ
    /\ Len(Same(last.key)) >= 2
    /\ key[root] = last.key
    /\ last.ret # root
    /\ last.ret = HeadOf(Same(last.key))

\* C15: in a tree with ubi_trDUPKEY set, for every node p of the tree and
\* the key of p, ubi_btFirstOf returns the first node of the traversal among
\* all the nodes with that key, whichever of them p is.  The code does not
\* keep to it: Border climbs from p only while the parent has the key.
C15_FirstOf ==
    last.op = "btFirstOf" /\ ubi_trDups_OK(Tree)
        /\ key[last.node] = last.key
    => last.ret = HeadOf(Same(last.key))

\* C16: in a tree with ubi_trDUPKEY set, for every node p of the tree and
\* the key of p, ubi_btLastOf returns the last node of the traversal among
\* all the nodes with that key; it returns NULL only when the key is not
\* the key of p.  The code does not keep to it: it returns NULL for every
\* node p.
C16_LastOf ==
    last.op = "btLastOf" /\ ubi_trDups_OK(Tree) =>
        /\ key[last.node] = last.key => last.ret = EndOf(Same(last.key))
        /\ last.ret = NULL => key[last.node] # last.key

\* C17: ubi_btTraverse calls the visitor once on every node of the tree, in
\* the order of the traversal, each node still in the tree when it is
\* visited, and returns the number of nodes visited, which is the count at
\* the start; also when the visitor takes the node it is given out of the
\* tree with the base or the splay Remove.  The nodes the visitor left
\* alone are the tree afterwards, in their order.
C17_Traverse ==
    [][last'.op = "btTraverse" =>
          /\ [i \in 1..Len(log') |-> log'[i].node] = InOrder(Tree)
          /\ \A i, j \in 1..Len(log') :
                log'[i].node = log'[j].node => i = j
          /\ {log'[i].node : i \in 1..Len(log')} = Members
          /\ \A i \in 1..Len(log') : log'[i].linked /\ ~log'[i].again
          /\ last'.ret = Len(log')
          /\ last'.ret = count
          /\ InOrder(Tree)' =
                SelectSeq(InOrder(Tree), LAMBDA n : own'[n] = "in")
          /\ count' = Cardinality(Members')]_vars

\* A traversal of three nodes whose visitor removed two of them with the
\* splay Remove.
C17_Witness ==
    /\ last.op = "btTraverse"
    /\ last.arg = 1
    /\ last.ret = 3
    /\ Len(log) = 3
    /\ count = 1

\* C18: ubi_btKillTree with a RootPtr and a FreeNode calls FreeNode once on
\* every node of the tree, each time on a node that has no child left,
\* returns the count the tree had, and leaves root.root NULL and count 0
\* with the flags as they were; with a NULL RootPtr or a NULL FreeNode it
\* returns 0 and changes nothing.
C18_KillTree ==
    [][last'.op = "ubi_btKillTree" =>
          IF last'.node # NULL /\ last'.arg # NULL
          THEN /\ {log'[i].node : i \in 1..Len(log')} = Members
               /\ Len(log') = Cardinality(Members)
               /\ \A i \in 1..Len(log') : ~log'[i].again
               /\ Bare(Tree, [i \in 1..Len(log') |-> log'[i].node], 1)
               /\ last'.ret = count
               /\ root' = NULL /\ count' = 0 /\ flags' = flags
               /\ Members' = {}
          ELSE /\ last'.ret = 0
               /\ log' = <<>>
               /\ UNCHANGED <<Link, gender, balance, key, root, count,
                              flags, own>>]_vars

\* A tree of three nodes whose root had two children has been killed.
C18_Witness ==
    /\ last.op = "ubi_btKillTree"
    /\ last.node # NULL /\ last.arg # NULL
    /\ last.ret = 3
    /\ last.kids = 2
    /\ Len(log) = 3
    /\ root = NULL /\ count = 0

\* C19: ubi_btLeafNode returns NULL if and only if leader is NULL;
\* otherwise it returns a node of the subtree of leader that has neither a
\* left nor a right child, and leader itself only when leader has no child.
C19_LeafNode ==
    last.op = "btLeafNode" =>
        /\ last.ret = NULL <=> last.node = NULL
        /\ last.node # NULL =>
              /\ last.ret \in Closure(Tree, {last.node}, MaxNodes)
              /\ Kids(last.ret) = 0
              /\ last.ret = last.node => Kids(last.node) = 0

\* The leaf returned is the right child of the left child of leader, which
\* has no other descendants.
C19_Witness ==
    /\ last.op = "btLeafNode"
    /\ last.node # NULL
    /\ Link[last.node][ubi_trLEFT] # NULL
    /\ Link[last.node][ubi_trRIGHT] = NULL
    /\ last.ret = Link[Link[last.node][ubi_trLEFT]][ubi_trRIGHT]
    /\ last.ret # NULL

\* C20: ubi_cachePut with the key of an entry of the cache replaces that
\* entry: the old entry is given to free_func once, first and unlinked;
\* mem_used becomes the mem_used before less the size of the old entry plus
\* EntrySize, and the count stays, before the trimming (which takes the
\* entries it frees and their sizes off); and the cache never holds two
\* entries with one key.
C20_PutReplaces ==
    [][/\ \A m1, m2 \in Members' : key'[m1] = key'[m2] => m1 = m2
       /\ last'.op = "cachePut" /\ (\E m \in Members : key[m] = last'.key)
          => LET old == CHOOSE m \in Members : key[m] = last'.key
                 sz == [entry_size EXCEPT ![last'.node] = last'.arg]
             IN  /\ Len(log') >= 1
                 /\ log'[1].node = old
                 /\ ~log'[1].linked /\ ~log'[1].again
                 /\ \A i \in 2..Len(log') : log'[i].node # old
                 /\ mem_used' = mem_used - entry_size[old] + last'.arg
                                  - FreedSize(sz, log', 2)
                 /\ count' = count - (Len(log') - 1)
                 /\ own'[old] = "out"]_vars

\* A Put into a cache without limits (nothing is trimmed) has replaced an
\* entry of a cache of two by an entry of another size.
C20_Witness ==
    /\ last.op = "cachePut"
    /\ max_entries = 0 /\ max_memory = 0
    /\ Len(log) = 1
    /\ log[1].node # last.node
    /\ count = 2
    /\ mem_used = SumSize(entry_size, Reach(Tree))
    /\ \E n, m \in Reach(Tree) : entry_size[n] # entry_size[m]

\* C21: with max_entries = m > 0 and no limit of memory, a Put of a new
\* key into a cache of m entries throws out one entry, and m remain.  The
\* trimming (of Put and of the two calls that set a limit) stops as soon
\* as both limits hold, and throws nothing out while both hold: before the
\* last entry it threw out a limit was exceeded, and afterwards none is,
\* or the cache is empty.
C21_TrimExact ==
    [][/\ last'.op = "cachePut" /\ max_memory = 0 /\ max_entries > 0
            /\ count = max_entries
            /\ (\A m \in Members : key[m] # last'.key)
          => Len(log') = 1 /\ count' = max_entries
                /\ log'[1].node \in Members \cup {last'.node}
       /\ last'.op \in {"cachePut", "cacheSetMaxEntries",
                        "cacheSetMaxMemory"}
          => LET first == IF last'.op = "cachePut"
                             /\ (\E m \in Members : key[m] = last'.key)
                          THEN 2 ELSE 1
                 sz == IF last'.op = "cachePut"
                       THEN [entry_size EXCEPT ![last'.node] = last'.arg]
                       ELSE entry_size
             IN  /\ first <= Len(log') =>
                       Exceeded(Cache', count' + 1,
                                mem_used' + sz[log'[Len(log')].node])
                 /\ ~Exceeded(Cache', count', mem_used') \/ count' = 0]_vars

\* The third Put of a new key into a cache with max_entries = 2 and no
\* limit of memory has thrown one entry out; two remain.
C21_Witness ==
    /\ last.op = "cachePut"
    /\ max_entries = 2 /\ max_memory = 0
    /\ Len(log) = 1
    /\ count = 2
    /\ mem_used >= 2

\* C22: after any sequence of cache calls cache_hits <= cache_trys, so
\* what ubi_cacheHitRatio returns is the floor of
\* 10000 * cache_hits / cache_trys and lies in 0..10000; it is 0 whenever
\* cache_trys is 0, as it is right after the Init and after every Clear.
C22_HitRatio ==
    /\ cache_hits <= cache_trys
    /\ last.op = "cacheHitRatio" =>
          /\ last.ret \in 0..10000
          /\ cache_trys = 0 => last.ret = 0
          /\ cache_trys # 0 =>
                /\ last.ret * cache_trys <= 10000 * cache_hits
                /\ 10000 * cache_hits < (last.ret + 1) * cache_trys
    /\ last.op \in {"init", "cacheClear"} =>
          cache_trys = 0 /\ ubi_cacheHitRatio(Cache) = 0

\* The ratio was read after the counters were halved at 0xFFFE lookups,
\* all of them hits.
C22_Witness ==
    /\ last.op = "cacheHitRatio"
    /\ cache_trys = HalveAt \div 2
    /\ cache_hits = cache_trys
    /\ last.ret = 10000

\* C23: a ubi_cacheGet adds one to cache_trys, and one to cache_hits
\* exactly when it found an entry with the key; when that brings cache_trys
\* to 0xFFFE both counters are halved.  So cache_trys is below 0xFFFE after
\* every Get, and neither sum passed what 16 bits hold.
C23_GetCounts ==
    [][last'.op = "cacheGet" =>
          LET found == last'.ret # NULL
              h == IF found THEN cache_hits + 1 ELSE cache_hits
              t == cache_trys + 1
          IN  /\ found <=> (\E m \in Members : key[m] = last'.key)
              /\ found => last'.ret \in Members /\ key[last'.ret] = last'.key
              /\ h < UShort /\ t < UShort
              /\ IF t = HalveAt
                 THEN cache_hits' = h \div 2 /\ cache_trys' = t \div 2
                 ELSE cache_hits' = h /\ cache_trys' = t
              /\ cache_trys' < HalveAt]_vars

\* A Get that found its entry was the lookup 0xFFFE; the counters, all
\* hits, were halved.
C23_Witness ==
    /\ last.op = "cacheGet"
    /\ last.ret # NULL
    /\ cache_trys = HalveAt \div 2
    /\ cache_hits = HalveAt \div 2

\* C24: ubi_cacheDelete returns TRUE exactly when the cache has an entry
\* with the key; that entry alone is then removed and passed once to the
\* free function, count drops by one and mem_used by the entry's size.
\* Otherwise it returns FALSE and the tree, count, mem_used and the two
\* counters are as before.
C24_Delete ==
    [][last'.op = "cacheDelete" =>
          LET hit == {m \in Members : key[m] = last'.key}
          IN  /\ last'.ret = (IF hit # {} THEN ubi_trTRUE ELSE ubi_trFALSE)
              /\ cache_hits' = cache_hits /\ cache_trys' = cache_trys
              /\ hit # {} =>
                    /\ Cardinality(hit) = 1
                    /\ Members' = Members \ hit
                    /\ Len(log') = 1 /\ log'[1].node \in hit
                    /\ ~log'[1].linked /\ ~log'[1].again
                    /\ InOrder(Tree') = Without(InOrder(Tree), log'[1].node)
                    /\ count' = count - 1
                    /\ mem_used' = mem_used - entry_size[log'[1].node]
                    /\ \A m \in Members' : /\ key'[m] = key[m]
                                            /\ entry_size'[m] = entry_size[m]
              /\ hit = {} =>
                    /\ TreeKept
                    /\ mem_used' = mem_used /\ entry_size' = entry_size]_vars

\* One entry of a cache of three was deleted by its key.
C24_Witness ==
    /\ last.op = "cacheDelete"
    /\ last.ret = ubi_trTRUE
    /\ count = 2
    /\ Len(log) = 1
    /\ last.key = 2

\* C25: ubi_cacheReduce(n) on a cache of c entries removes and frees
\* min(n, c) of them, each once; it returns TRUE exactly when n <= c, and
\* when it returns FALSE the cache is empty (count 0, no root, mem_used 0).
\* ubi_cacheReduce(0) returns TRUE and changes nothing.
C25_Reduce ==
    [][last'.op = "cacheReduce" =>
          LET n == last'.arg
              k == IF n <= count THEN n ELSE count
          IN  /\ Len(log') = k
              /\ Cardinality(Freed(log')) = k
              /\ Freed(log') \subseteq Members
              /\ \A i \in 1..k : ~log'[i].again
              /\ Members' = Members \ Freed(log')
              /\ count' = count - k
              /\ mem_used' = mem_used - FreedSize(entry_size, log', 1)
              /\ last'.ret = (IF n <= count THEN ubi_trTRUE ELSE ubi_trFALSE)
              /\ last'.ret = ubi_trFALSE =>
                    count' = 0 /\ root' = NULL /\ mem_used' = 0
              /\ n = 0 =>
                    /\ TreeKept
                    /\ mem_used' = mem_used /\ entry_size' = entry_size
                    /\ cache_hits' = cache_hits
                    /\ cache_trys' = cache_trys]_vars

\* ubi_cacheReduce(3) on a cache of two entries freed both and returned
\* FALSE.
C25_Witness ==
    /\ last.op = "cacheReduce"
    /\ last.arg = 3
    /\ last.ret = ubi_trFALSE
    /\ Len(log) = 2
    /\ count = 0

\* C26: ubi_cacheSetMaxEntries(n) and ubi_cacheSetMaxMemory(n) return the
\* limit that was in force and make n the limit; they throw nothing out
\* when n is 0 or when count (mem_used) is not above n; and neither
\* changes the other limit.
C26_SetMax ==
    [][/\ last'.op = "cacheSetMaxEntries" =>
             /\ last'.ret = max_entries
             /\ max_entries' = last'.arg
             /\ max_memory' = max_memory
             /\ (last'.arg = 0 \/ count <= last'.arg) =>
                   TreeKept /\ mem_used' = mem_used
       /\ last'.op = "cacheSetMaxMemory" =>
             /\ last'.ret = max_memory
             /\ max_memory' = last'.arg
             /\ max_entries' = max_entries
             /\ (last'.arg = 0 \/ mem_used <= last'.arg) =>
                   TreeKept /\ mem_used' = mem_used]_vars

\* ubi_cacheSetMaxMemory(2) on a cache of one entry of size 1 with a
\* limit of 2 entries: the old limit of memory, 1, came back, and the
\* entry stayed.
C26_Witness ==
    /\ last.op = "cacheSetMaxMemory"
    /\ last.arg = 2 /\ max_memory = 2
    /\ last.ret # 0 /\ last.ret # 2
    /\ max_entries = 2
    /\ count = 1 /\ mem_used = 1

\* C27: ubi_cacheClear passes every entry once to the free function and
\* leaves count 0, no root, mem_used 0 and both counters 0; the two limits
\* and the flags of the tree are as before, and the tree is as
\* ubi_cacheInit leaves it, ready for further Puts.
C27_Clear ==
    [][last'.op = "cacheClear" =>
          /\ Freed(log') = Members
          /\ Len(log') = Cardinality(Members)
          /\ \A i \in 1..Len(log') : ~log'[i].again
          /\ count' = 0 /\ root' = NULL /\ mem_used' = 0
          /\ cache_hits' = 0 /\ cache_trys' = 0
          /\ max_entries' = max_entries /\ max_memory' = max_memory
          /\ flags' = flags
          /\ Members' = {}
          /\ Tree' = ubi_btInitTree(Blank, ubi_trOVERWRITE)]_vars

\* A cache of two entries, with both limits set, was cleared.
C27_Witness ==
    /\ last.op = "cacheClear"
    /\ Len(log) = 2
    /\ count = 0
    /\ max_entries = 2 /\ max_memory = 2

C29_Terminates ==
    /\ (last.op \in Loops) ~> (last.op = "return")
    /\ [][last.op \in Loops =>
            \/ /\ last'.op = last.op
               /\ count' = count - 1
               /\ Len(log') = Len(log) + 1
               /\ log'[Len(log')].node \in Members \ Members'
            \/ /\ last'.op = "return"
               /\ count' = count /\ log' = log /\ Members' = Members
               /\ last.op = "cachetrim" =>
                     ~Exceeded(Cache, count, mem_used) \/ count = 0
               /\ last'.ret = ubi_trFALSE /\ last.op = "ubi_cacheReduce" =>
                     count = 0]_vars
    /\ [](last.op \in Loops \cup {"return"} =>
            /\ last.cnt0 - count \in 0..last.cnt0
            /\ last.rounds <= (last.cnt0 - count) + 1)

\* cachetrim has returned after two rounds that each threw out an entry.
C29_Witness ==
    /\ last.op = "return"
    /\ last.cnt0 = 3
    /\ count = 1
    /\ Len(log) = 2
    /\ max_entries = 1

\* C30: the same Insert( node, key ) and Remove( node ) calls, with the
\* same flags, on a base tree and on a splay tree give the same results of
\* Insert and the same OldNode, the same count, and after every step the
\* same nodes in the same order of traversal; the shapes may differ.
C30_Interchangeable ==
    /\ flags = btTree.flags
    /\ key = btTree.key
    /\ count = btTree.count
    /\ InOrder(Tree) = InOrder(btTree)
    /\ Len(InOrder(Tree)) = Cardinality(Members)
    /\ last.op \in {"trInsert", "trRemove"} =>
          /\ last.ret = last.bt.ret
          /\ last.old = last.bt.old

\* Three nodes are in both trees, two of them with the same key, after an
\* Insert; the trees have taken different shapes.
C30_Witness ==
    /\ last.op = "trInsert"
    /\ count = 3
    /\ flags = ubi_trDUPKEY
    /\ \E n, m \in Members : n # m /\ key[n] = key[m]
    /\ root # btTree.root
    /\ Link # btTree.Link

\* C31: ubi_sptSplay on a node of the tree returns, with that node at
\* the root (no parent, gender PARENT, root.root the node) and with the
\* count and the traversal of before the call.  A round of the loop of
\* Splay on n with parent p and grandparent g: when n and p have the same
\* gender, p is rotated and then n (p ends under n, g under p); when they
\* differ and p is not the root, n is rotated twice (p and g end as the
\* two children of n); when p is the root, n is rotated once.  Every round
\* keeps the traversal and brings n two levels up, or one to the root.
C31_Splay ==
    /\ (last.op = "Splay") ~> (last.op = "sptSplay")
    /\ [](last.op = "sptSplay" =>
            /\ root = last.node
            /\ Link[root][ubi_trPARENT] = NULL
            /\ gender[root] = ubi_trPARENT
            /\ count = last.cnt0
            /\ InOrder(Tree) = last.seq
            /\ Reach(Tree) = Members)
    /\ [](last.op \in {"Splay", "sptSplay"} =>
            last.rounds <= (last.arg + 1) \div 2 + 1)
    /\ [][last.op = "Splay" /\ last'.op = "Splay" =>
            LET n == last.node
                p == Link[n][ubi_trPARENT]
                g == Link[p][ubi_trPARENT]
                way == gender[n]
                rev == ubi_trRevWay(way)
            IN  /\ p # NULL
                /\ count' = count /\ root' = root /\ key' = key
                /\ InOrderAbout(Tree, n)' = InOrderAbout(Tree, n)
                /\ IF gender[p] = way
                   THEN /\ Tree' = Rotate(Rotate(Tree, p), n)
                        /\ Link'[n][rev] = p /\ Link'[p][rev] = g
                        /\ Depth(Tree, n)' = Depth(Tree, n) - 2
                   ELSE IF g # NULL
                   THEN /\ Tree' = Rotate(Rotate(Tree, n), n)
                        /\ Link'[n][rev] = p /\ Link'[n][way] = g
                        /\ Depth(Tree, n)' = Depth(Tree, n) - 2
                   ELSE /\ Tree' = Rotate(Tree, n)
                        /\ Link'[n][rev] = p
                        /\ Depth(Tree, n)' = 0]_vars

\* ubi_sptSplay has returned after one round that rotated a grandchild of
\* the root twice: the node is the root, with a child on either side.
C31_Witness ==
    /\ last.op = "sptSplay"
    /\ last.arg = 2
    /\ last.rounds = 2
    /\ Kids(last.node) = 2
    /\ count = 3

C33_DupOrder ==
    /\ [](\A k \in Keys :
             SelectSeq(InOrder(Tree), LAMBDA n : key[n] = k)
                = SelectSeq(last.order, LAMBDA n : key[n] = k))
    /\ [][last'.op \in Inserts /\ Same(last'.key) # <<>> =>
            LET s == InOrder(Tree)
                i == Len(Below(last'.key)) + Len(Same(last'.key))
            IN  /\ last'.ret = ubi_trTRUE
                /\ last'.old = NULL
                /\ count' = count + 1
                /\ InOrder(Tree)' = SubSeq(s, 1, i) \o <<last'.node>>
                                       \o SubSeq(s, i + 1, Len(s))]_vars

\* A third node with the same key has been inserted into a tree whose
\* root had, after a rotation, the other node of that key on its left: the
\* new node is a leaf and the root has a node on either side.
C33_Witness ==
    /\ last.op \in Inserts
    /\ count = 3
    /\ \A n \in Members : key[n] = last.key
    /\ last.order[3] = last.node
    /\ last.kids = 0
    /\ \E m \in Members : Kids(m) = 2

\* C34: in a tree initialized without ubi_trDUPKEY (flags 0 or
\* ubi_trOVERWRITE) no two nodes of the tree have the same key, whatever
\* Insert and Remove calls were made; so no two entries of a cache have
\* the same key.
C34_NoTwins ==
    flags # ubi_trDUPKEY =>
        /\ \A n, m \in Members \cup Reach(Tree) : n # m => key[n] # key[m]
        /\ last.op \in CacheOps => flags = ubi_trOVERWRITE

\* A Put of a key that was in a cache without limits has replaced the
\* entry that had it; the cache holds this entry and another one.
C34_Witness ==
    /\ last.op = "cachePut"
    /\ max_entries = 0 /\ max_memory = 0
    /\ Len(log) = 1
    /\ count = 2
    /\ key[last.node] = last.key
    /\ last.node \in Members

\* C35: the entry that ubi_cachePut has inserted, or that ubi_cacheGet has
\* found, is the root of the tree of the cache from then until an entry is
\* thrown out; and the first entry thrown out after that (in the first
\* round of cachetrim in that ubi_cachePut, or in the first round of a
\* ubi_cacheReduce, ubi_cacheSetMaxEntries or ubi_cacheSetMaxMemory that
\* follows) is another entry, unless there is no other.
C35_KeepsTouched ==
    /\ [](Touched # NULL => root = Touched /\ Touched \in Members)
    /\ [][Touched # NULL /\ count' < count =>
            /\ count' = count - 1
            /\ Len(log') = Len(log) + 1
            /\ log'[Len(log')].node \in Members \ Members'
            /\ log'[Len(log')].node = Touched => count = 1]_vars
    /\ [][Members' \ Members # {} =>
            last'.op = "cachetrim" /\ Members' \ Members = {Touched'}]_vars
    /\ [][last'.op = "return" /\ last'.key # 0 /\ last'.ret # NULL =>
            Touched' = last'.ret /\ key'[last'.ret] = last'.key]_vars

\* ubi_cacheGet found the entry at the bottom of a cache of three, and the
\* ubi_cacheReduce that followed has thrown out one of the other two.
C35_Witness ==
    /\ last.op = "return"
    /\ last.ret = ubi_trTRUE
    /\ last.cnt0 = 3
    /\ count = 2
    /\ cache_trys = 1 /\ cache_hits = 1
    /\ last.node # NULL
    /\ Kids(last.node) = 1
    /\ Len(log) = 1

\* C36: a ubi_cacheGet that finds no entry leaves the tree of the cache
\* (root and every link, gender and key), count, mem_used, the sizes and
\* the two limits as they were and frees nothing: only the counters of the
\* hit ratio change.  A ubi_cacheGet that finds an entry changes the shape
\* of the tree and the counters only: the entries, their keys and sizes
\* and their order, count, mem_used and the limits are as before, and
\* nothing is freed.
C36_GetFrame ==
    [][last'.op = "cacheGet" =>
          /\ count' = count
          /\ mem_used' = mem_used
          /\ max_entries' = max_entries
          /\ max_memory' = max_memory
          /\ entry_size' = entry_size
          /\ key' = key
          /\ flags' = flags
          /\ own' = own
          /\ log' = <<>>
          /\ cache_trys' # cache_trys
          /\ IF last'.ret = NULL
             THEN /\ Link' = Link /\ gender' = gender /\ root' = root
                  /\ cache_hits' = cache_hits
             ELSE /\ InOrder(Tree)' = InOrder(Tree)
                  /\ Reach(Tree)' = Reach(Tree)
                  /\ root' = last'.ret]_vars

\* A ubi_cacheGet has found nothing in a cache of two entries, the keys
\* of which are those on either side of the key it asked for.
C36_Witness ==
    /\ last.op = "cacheGet"
    /\ last.ret = NULL
    /\ count = 2
    /\ {key[n] : n \in Members} = {1, 3}
    /\ mem_used = 2 * MaxSize
    /\ cache_trys = 1
    /\ cache_hits = 0

\* C37: after any calls of ubi_slInsert and ubi_slRemoveNext on an
\* initialized list (After and AfterMe NULL or a node of the list, New a
\* node that is not in it) count is the number of nodes reached from Head
\* through Next, these are the nodes that are in the list, each once, and
\* Head is NULL exactly when count is 0.
C37_ListCount ==
    /\ ubi_slCount(slList) = Len(Listed(slList))
    /\ {Listed(slList)[i] : i \in 1..Len(Listed(slList))} = Members
    /\ Cardinality(Members) = Len(Listed(slList))
    /\ slList.Head = NULL <=> ubi_slCount(slList) = 0
    /\ last.op \in {"slInsert", "slAddTail"} => ubi_slCount(slList) = last.cnt0 + 1
    /\ last.op \in {"slRemoveNext", "slRemHead"} =>
          ubi_slCount(slList) = IF last.ret # NULL THEN last.cnt0 - 1 ELSE last.cnt0

\* ubi_slRemoveNext has taken the second of three nodes out of the list.
C37_Witness ==
    /\ last.op = "slRemoveNext"
    /\ last.cnt0 = 3
    /\ last.arg = slList.Head
    /\ last.ret # NULL
    /\ slList.Tail # last.arg

\* C38: Tail points to the last node reached from Head, the node whose
\* Next is NULL, when the list has nodes, and to the list header when it
\* has none; ubi_slAddTail (ubi_slEnqueue) puts the new node after all the
\* others and ubi_slRemHead (ubi_slDequeue) returns the first node and
\* leaves the others in their order, so that nodes come out in the order
\* in which they were enqueued.
C38_Tail ==
    /\ [](/\ slList.Tail = IF Listed(slList) = <<>> THEN ListPtr
                           ELSE EndOf(Listed(slList))
          /\ NextOf(slList, slList.Tail) = NULL)
    /\ [][last'.op = "slAddTail" =>
            Listed(slList)' = Append(Listed(slList), last'.node)]_vars
    /\ [][last'.op = "slRemHead" =>
            /\ last'.ret = HeadOf(Listed(slList))
            /\ Listed(slList)' = IF Listed(slList) = <<>> THEN <<>>
                                 ELSE Tail(Listed(slList))]_vars

\* ubi_slRemHead has taken the only node out of the list: Tail is back at
\* the header.
C38_Witness ==
    /\ last.op = "slRemHead"
    /\ last.ret # NULL
    /\ last.cnt0 = 1
    /\ slList.Tail = ListPtr

\* C39: ubi_slLast returns the last node of the list, or NULL when the
\* list is empty.  The macro does not keep to it: for an empty list it
\* returns the pointer to the list header.
C39_Last ==
    last.op = "slLast" =>
        last.ret = IF Listed(slList) = <<>> THEN NULL
                   ELSE EndOf(Listed(slList))

\* C40: in ubi_btLeafNode the number of paths is never above MAXPATHS, at
\* any test of the loop and after either filling loop of any round, in a
\* tree of any shape: every element p[j++] written and every element q[i]
\* read is one of the MAXPATHS elements of its array, and the q[0] that is
\* returned has been written.  (The number of paths is in fact never
\* above MAXPATHS - 1.)
C40_PathsBound ==
    last.op \in {"ubi_btLeafNode", "btLeafNode"} /\ last.node # NULL =>
        /\ Len(last.p) <= MAXPATHS
        /\ Len(last.q) <= MAXPATHS
        /\ last.filled <= Len(last.p)
        /\ last.filled <= Len(last.q)
        /\ Len(last.p) <= MAXPATHS - 1
        /\ last.q # <<>> =>
              \A i \in 1..Len(last.p) :
                  last.p[i] \in ChildrenOf(btTree, last.q)
        /\ last.op = "btLeafNode" =>
              /\ Len(last.q) >= 1
              /\ last.ret = ubi_btLeafNode(btTree, last.node)

\* A round has filled p[] up to MAXPATHS - 1 from nodes that have more
\* children than that, the first loop having found two of them.
C40_Witness ==
    /\ last.op = "ubi_btLeafNode"
    /\ Len(last.p) = MAXPATHS - 1
    /\ last.filled = 2
    /\ Cardinality(ChildrenOf(btTree, last.q)) > MAXPATHS

====
